---- MODULE Spec2Model ----
(***************************************************************************)
(* The OpenPGP packet dumper of src/librepgp/stream-dump.cpp: the two      *)
(* entry points stream_dump_packets (text) and stream_dump_packets_json,   *)
(* the cleartext skip, and the two packet walkers with their three         *)
(* counters (layers, stream_pkts, failures) of rnp_dump_ctx_t.             *)
(*                                                                         *)
(* The input is read once, front to back, so it is produced on demand: the *)
(* first time the code looks at a stream position (src->eof(), then        *)
(* stream_peek_packet_hdr) the content of that position is fixed, and it   *)
(* stays fixed while the position is not consumed.  The input is finite:   *)
(* it holds at most MaxInput packets and broken headers.                   *)
(*                                                                         *)
(* A packet decoder is known by its result and by whether it consumed its  *)
(* packet.  Memory is taken not to run out: json-c allocations and          *)
(* init_indent_dest succeed.                                                *)
(***************************************************************************)
EXTENDS Integers, Sequences, FiniteSets, TLC

(***************************************************************************)
(* Bounds.  The three limits are macros the walkers compare against; the   *)
(* header that sets them is not part of the sources at hand.  The model     *)
(* runs them small: MAXIMUM_ERROR_PKTS is fixed, and the other two, whose   *)
(* order decides what a deep nesting does, range over 1..MaxLimit (see lim).*)
(***************************************************************************)
MaxLimit == 2
MAXIMUM_ERROR_PKTS == 1
\* stream positions (packets or broken headers) the input may hold
MaxInput == 3
\* longest cleartext-framed text in front of the packets
MaxText == 4
\* the preview of a packet's body: 1024 bytes in the text walker and 2048 in
\* the JSON walker
RawPreviewText == 2
RawPreviewJson == 4
\* most subpackets of a signature, those of the signatures embedded in it
\* counted in
MaxSubpkts == 2
\* SIZE_MAX
SizeMax == 9
\* most bytes of following packets in the source
MaxFollowing == 2
\* sizeof(buf) in stream_skip_cleartext
BufSize == 4

\* counters stop growing here; no run of the code as written gets there
CounterCap == MAXIMUM_ERROR_PKTS + 2 * MaxLimit + MaxInput + 3

(***************************************************************************)
(* Result codes                                                            *)
(***************************************************************************)
RNP_SUCCESS == "RNP_SUCCESS"
RNP_ERROR_GENERIC == "RNP_ERROR_GENERIC"
RNP_ERROR_BAD_FORMAT == "RNP_ERROR_BAD_FORMAT"
RNP_ERROR_OUT_OF_MEMORY == "RNP_ERROR_OUT_OF_MEMORY"
RNP_ERROR_READ == "RNP_ERROR_READ"
RNP_ERROR_NOT_ENOUGH_DATA == "RNP_ERROR_NOT_ENOUGH_DATA"

(***************************************************************************)
(* Packet tags, by the case of the walkers' switch that takes them         *)
(***************************************************************************)
PlainTags == {"PGP_PKT_SIGNATURE", "PGP_PKT_SECRET_KEY", "PGP_PKT_PUBLIC_KEY",
              "PGP_PKT_SECRET_SUBKEY", "PGP_PKT_PUBLIC_SUBKEY", "PGP_PKT_USER_ID",
              "PGP_PKT_USER_ATTR", "PGP_PKT_PK_SESSION_KEY", "PGP_PKT_SK_SESSION_KEY",
              "PGP_PKT_ONE_PASS_SIG", "PGP_PKT_MARKER"}
\* the integrity-protected and the AEAD packet fall to the default case
EncryptedTags_short == {"PGP_PKT_SE_DATA"}
EncryptedTags == {"PGP_PKT_SE_DATA", "PGP_PKT_SE_IP_DATA", "PGP_PKT_AEAD_ENCRYPTED"}
CompressedTags == {"PGP_PKT_COMPRESSED"}
LiteralTags == {"PGP_PKT_LITDATA"}
SkippedTags == {"PGP_PKT_TRUST", "PGP_PKT_MDC"}
UnknownTags == {"PGP_PKT_RESERVED"}

\* the tags the input is drawn from: one or two of every case
InputTags == {"PGP_PKT_SIGNATURE", "PGP_PKT_SE_IP_DATA", "PGP_PKT_COMPRESSED",
              "PGP_PKT_LITDATA", "PGP_PKT_TRUST", "PGP_PKT_RESERVED"}

(***************************************************************************)
(* ST_SIG_BEGIN, "\n-----BEGIN PGP SIGNATURE-----", cut down to its line   *)
(* feed "n" and one further character "B"; "x" is any other byte and "z"   *)
(* the zero byte.                                                          *)
(***************************************************************************)
ST_SIG_BEGIN == <<"n", "B">>
siglen == Len(ST_SIG_BEGIN)
Bytes == {"n", "B", "x", "z"}

RECURSIVE SeqsUpTo(_, _)
SeqsUpTo(S, n) ==
    IF n = 0 THEN {<<>>}
    ELSE LET shorter == SeqsUpTo(S, n - 1)
         IN  shorter \cup {Append(s, b) : s \in {t \in shorter : Len(t) = n - 1}, b \in S}

Min(a, b) == IF a < b THEN a ELSE b
Drop(s, n) == IF n >= Len(s) THEN <<>> ELSE SubSeq(s, n + 1, Len(s))

\* strstr(buf, needle) over the first `read` bytes: buf[read] = '\0' ends the
\* string, and so does an earlier zero byte.  0 when there is no match, else
\* the 1-based index of the first match.
CStrLen(buf) ==
    IF \E i \in 1..Len(buf) : buf[i] = "z"
    THEN (CHOOSE i \in 1..Len(buf) : buf[i] = "z" /\ \A j \in 1..(i - 1) : buf[j] # "z") - 1
    ELSE Len(buf)
strstr(buf, needle) ==
    LET n == CStrLen(buf)
        hits == {i \in 1..n : i + Len(needle) - 1 <= n
                              /\ SubSeq(buf, i, i + Len(needle) - 1) = needle}
    IN  IF hits = {} THEN 0 ELSE CHOOSE i \in hits : \A j \in hits : i <= j

VARIABLES
    lim,        \* the build: the values of MAXIMUM_NESTING_LEVEL and
                \* MAXIMUM_STREAM_PKTS
    mode,       \* the entry point called: "text" or "json"
    pc,         \* where the entry point stands
    src,        \* the source handed in: framing, and the head of the packet stream
    text,       \* the bytes of the cleartext-framed text still ahead of the source
    ctx,        \* rnp_dump_ctx_t: layers, stream_pkts, failures
    stack,      \* the active walker invocations, outermost first
    out,        \* what was written to dst (text entry point)
    jso,        \* *jso of the caller (JSON entry point)
    ret,        \* the entry point's result
    left,       \* stream positions the input may still reveal
    log,        \* the RNP_LOG messages written
    events,     \* what has happened that leaves no other trace: a header peek
                \* failed, the skip of an unknown packet failed, a walker was
                \* entered deeper than MAXIMUM_NESTING_LEVEL
    dump        \* the one packet a field decoder is tried on by itself (see
                \* DecoderSpec); none in a dump call

vars == <<lim, mode, pc, src, text, ctx, stack, out, jso, ret, left, log, events,
          dump>>

MAXIMUM_NESTING_LEVEL == lim.nest
MAXIMUM_STREAM_PKTS == lim.stream

(***************************************************************************)
(* Stream positions                                                        *)
(***************************************************************************)
\* st: "none" (not looked at yet), "eof", "bad" (the header cannot be peeked)
\* or "pkt"; dec is what the packet's decoder (or skip) will do: "ok", "fail"
\* (fails, having consumed the packet) or "stuck" (fails, consuming nothing)
NoHd == [st |-> "none", tag |-> "", dec |-> ""]
EofHd == [st |-> "eof", tag |-> "", dec |-> ""]
BadHd == [st |-> "bad", tag |-> "", dec |-> ""]
Pkt(t, d) == [st |-> "pkt", tag |-> t, dec |-> d]
AnyPkts == {Pkt(t, d) : t \in InputTags, d \in {"ok", "fail", "stuck"}}
              \ {Pkt(t, "stuck") : t \in UnknownTags}
\* well-formed: a tag with a decoder (or a skipped tag), decoded without error
WfPkts == {Pkt(t, "ok") : t \in InputTags \ UnknownTags}


(***************************************************************************)
(* Walker invocations                                                      *)
(***************************************************************************)
\* one JSON packet object: its header (of which the offset is kept), and the
\* "contents" array a compressed packet gets when its payload was walked
\* without error
NoPkt == [off |-> 0, has |-> FALSE, contents |-> <<>>]
NewPkt(o) == [off |-> o, has |-> FALSE, contents |-> <<>>]

\* an invocation of stream_dump_packets_raw or stream_dump_raw_packets_json:
\*   pc     "enter", "loop", "dispatch", "nested", "account" or "check"
\*   hd     the head of its source, off the packets it has consumed
\*   wf     its source is the payload of a promised well-formed packet
\*   first  it has not finished a loop iteration yet
\*   dret   ret, the result of the last decoder
\*   pkts   the JSON array it builds, pkt the JSON object of the packet
NewFrame(h, w) ==
    [pc |-> "enter", hd |-> h, off |-> 0, wf |-> w, first |-> TRUE,
     dret |-> RNP_ERROR_GENERIC, pkts |-> <<>>, pkt |-> NoPkt]

Top == stack[Len(stack)]
SetTop(f) == [stack EXCEPT ![Len(stack)] = f]

\* the top-level stream begins with src.wfk well-formed packets: its first
\* src.wfk positions are promised
Promised(lvl, f) == lvl = 1 /\ f.off < src.wfk

\* the promised positions not looked at yet; the input keeps room for them
Outstanding ==
    LET seen == IF stack = <<>> THEN 0
                ELSE stack[1].off + (IF stack[1].hd.st = "none" THEN 0 ELSE 1)
    IN  IF src.wfk > seen THEN src.wfk - seen ELSE 0

\* what the source of invocation lvl may show at its head
Heads(lvl, f) ==
    IF f.hd.st # "none" THEN {f.hd}
    ELSE IF Promised(lvl, f) THEN WfPkts
    ELSE IF left <= Outstanding THEN {EofHd}
    ELSE IF f.wf THEN {EofHd} \cup WfPkts
    ELSE {EofHd, BadHd} \cup AnyPkts

\* a position that holds a packet or a broken header uses up input
Reveal(f, h) ==
    IF f.hd.st = "none" /\ h.st # "eof" THEN left - 1 ELSE left

\* the decoder has run on the head packet: "stuck" leaves the source where it was
Consumed(f) ==
    IF f.hd.dec = "stuck" THEN f
    ELSE [f EXCEPT !.hd = NoHd, !.off = @ + 1]

\* what a decoder (or stream_skip_packet) returns
DecoderResult(d) == IF d = "ok" THEN RNP_SUCCESS ELSE RNP_ERROR_BAD_FORMAT

(***************************************************************************)
(* The three limits                                                        *)
(***************************************************************************)
\* the limit compared one layer late
TooManyLayers_late(n) == n > MAXIMUM_NESTING_LEVEL + 1
TooManyLayers(n) == n > MAXIMUM_NESTING_LEVEL
\* the limit compared one packet late
TooManyStreamPkts_late(n) == n > MAXIMUM_STREAM_PKTS + 1
TooManyStreamPkts(n) == n > MAXIMUM_STREAM_PKTS
\* the limit compared with >= for >
TooManyErrors_early(n) == n >= MAXIMUM_ERROR_PKTS
\* the count compared with nothing
TooManyErrors_never(n) == FALSE
TooManyErrors(n) == n > MAXIMUM_ERROR_PKTS

\* a line of the text dump: the lines kept are the packet header lines
\* (":off N: packet header ...") and the notes that begin with a colon; ind is
\* the indentation, one level per enclosing compressed packet
Line(k, o) == [k |-> k, off |-> o, ind |-> Len(stack) - 1]
Note(k) == Line(k, 0)

\* the walker being entered is nested deeper than the limit allows (and is not
\* merely the one that follows too many earlier invocations)
Deeper == IF Len(stack) > MAXIMUM_NESTING_LEVEL THEN {"entered too deep"} ELSE {}

\* a header peek has failed, in the stream the caller handed in or in a
\* decompressed layer
PeekFailure ==
    IF Len(stack) = 1 THEN {"peek failed", "top-level peek failed"} ELSE {"peek failed"}

\* the packet's object is lost instead of added
json_object_array_add_lost(arr, obj) == arr
\* json_object_array_add
json_object_array_add(arr, obj) == Append(arr, obj)

\* The walker on top of the stack returns r; with given, it has set *jso to arr.
\* The outermost walker returns into the entry point.  A nested one returns
\* into stream_dump_compressed(_json), which closes the compressed source and
\* hands r on to the switch of the enclosing walker; the JSON one first adds
\* the array as "contents" when r is a success.
ReturnTo(r, given, arr) ==
    IF Len(stack) = 1
    THEN /\ stack' = <<>>
         /\ ret' = r
         /\ jso' = IF given THEN [set |-> TRUE, pkts |-> arr] ELSE jso
         /\ pc' = "finish"
    ELSE LET c == stack[Len(stack) - 1]
             cp == IF mode = "json" /\ r = RNP_SUCCESS /\ given
                   THEN [c.pkt EXCEPT !.has = TRUE, !.contents = arr]
                   ELSE c.pkt
             c2 == [c EXCEPT !.pc = "account", !.dret = r, !.hd = NoHd,
                             !.off = @ + 1, !.pkt = cp]
         IN  /\ stack' = Append(SubSeq(stack, 1, Len(stack) - 2), c2)
             /\ UNCHANGED <<ret, jso, pc>>


(***************************************************************************)
(* Initial states: either entry point, on any framing, with a context the  *)
(* caller may have used before                                             *)
(***************************************************************************)
\* no field decoder is tried by itself
NoDump == [stage |-> "none"]

\* a context that keeps a layer of an earlier call
FreshCtx_kept == [layers |-> 1, stream_pkts |-> 0, failures |-> 0]
FreshCtx == [layers |-> 0, stream_pkts |-> 0, failures |-> 0]
UsedCtx == [layers |-> MaxLimit + 1, stream_pkts |-> MaxLimit + 1,
            failures |-> MAXIMUM_ERROR_PKTS + 1]

Init ==
    /\ lim \in [nest : 1..MaxLimit, stream : 1..MaxLimit]
    /\ mode \in {"text", "json"}
    /\ pc = "call"
    /\ src \in [cleartext : BOOLEAN, armored : BOOLEAN, wfk : {0}, hd : {NoHd}]
    /\ text \in (IF src.cleartext THEN SeqsUpTo(Bytes, MaxText) ELSE {<<>>})
    /\ ctx \in {FreshCtx, UsedCtx}
    /\ stack = <<>>
    /\ out = <<>>
    /\ jso = [set |-> FALSE, pkts |-> <<>>]
    /\ ret = RNP_ERROR_GENERIC
    /\ left = MaxInput
    /\ log = {}
    /\ events = {}
    /\ dump = NoDump

(***************************************************************************)
(* stream_skip_cleartext, one loop iteration per step                      *)
(***************************************************************************)
\* the bytes src->peek(buf, sizeof(buf) - 1, &read) delivers
Peeked(t) == SubSeq(t, 1, Min(Len(t), BufSize - 1))

\* the marker is taken as found wherever the source stands
SkipOutcome_found(t) == "true"
\* "false" / "true": the function returns; "again": the loop goes round
SkipOutcome(t) ==
    IF t = <<>> THEN "false"
    ELSE IF Len(Peeked(t)) <= siglen THEN "false"
    ELSE IF strstr(Peeked(t), ST_SIG_BEGIN) # 0 THEN "true"
    ELSE "again"

\* the skip of a found marker takes the whole marker
SkipRest_past(t) ==
    IF SkipOutcome(t) = "true" THEN Drop(t, (strstr(Peeked(t), ST_SIG_BEGIN) - 1) + siglen)
    ELSE IF SkipOutcome(t) = "again" THEN Drop(t, Len(Peeked(t)) - siglen + 1)
    ELSE t
\* the source after the iteration's src->skip
SkipRest(t) ==
    IF SkipOutcome(t) = "true" THEN Drop(t, (strstr(Peeked(t), ST_SIG_BEGIN) - 1) + 1)
    ELSE IF SkipOutcome(t) = "again" THEN Drop(t, Len(Peeked(t)) - siglen + 1)
    ELSE t

\* src->peek may fail on a source that is not at eof: peeked tells whether it
\* delivered
stream_skip_cleartext ==
    /\ pc = "skip"
    /\ \E peeked \in (IF text = <<>> THEN {TRUE} ELSE BOOLEAN) :
         LET outcome == IF peeked THEN SkipOutcome(text) ELSE "false"
         IN  \/ /\ outcome = "again"
                /\ text' = SkipRest(text)
                /\ UNCHANGED <<pc, ret, log>>
             \/ /\ outcome = "true"
                /\ text' = SkipRest(text)
                /\ pc' = "armor"
                /\ UNCHANGED <<ret, log>>
             \/ /\ outcome = "false"
                /\ text' = text
                /\ log' = log \cup {"malformed cleartext signed data"}
                /\ ret' = RNP_ERROR_BAD_FORMAT
                /\ pc' = "done"
    /\ UNCHANGED <<dump, lim, mode, src, ctx, stack, out, jso, left, events>>

(***************************************************************************)
(* stream_dump_packets, the text entry point                               *)
(***************************************************************************)
\* the head of the top-level stream, looked at by src->eof(), when the stream
\* begins with k well-formed packets
TopHeads(k) == IF k > 0 THEN WfPkts ELSE {EofHd, BadHd} \cup AnyPkts
TopReveal(h) == IF h.st # "eof" THEN left - 1 ELSE left

stream_dump_packets_begin ==
    /\ pc = "call" /\ mode = "text"
    /\ ctx' = FreshCtx
    /\ IF src.cleartext
       THEN /\ out' = Append(out, Note(":cleartext signed data"))
            /\ pc' = "skip"
       ELSE /\ out' = out
            /\ pc' = "armor"
    /\ UNCHANGED <<dump, lim, mode, src, text, stack, jso, ret, left, log, events>>

\* the results a failing init_armored_src hands back
init_armored_src_errors ==
    {RNP_ERROR_BAD_FORMAT, RNP_ERROR_READ, RNP_ERROR_OUT_OF_MEMORY}

\* what src names once the framing is dealt with: armorsrc, or the caller's
\* source past the signed text; neither framing shows on it any more
Unframed(s) == [s EXCEPT !.cleartext = FALSE, !.armored = FALSE]

\* init_armored_src fails or not: the armor is not modelled further
stream_dump_packets_armor ==
    /\ pc = "armor" /\ mode = "text"
    /\ text' = <<>>
    /\ src' = Unframed(src)
    /\ IF src.armored
       THEN \E ok \in BOOLEAN :
              IF ok
              THEN /\ out' = Append(out, Note(":armored input"))
                   /\ pc' = "eof"
                   /\ UNCHANGED <<ret, log>>
              ELSE /\ log' = log \cup {"failed to parse armored data"}
                   /\ ret' \in init_armored_src_errors
                   /\ pc' = "done"
                   /\ out' = out
       ELSE /\ pc' = "eof"
            /\ UNCHANGED <<out, ret, log>>
    /\ UNCHANGED <<dump, lim, mode, ctx, stack, jso, left, events>>

stream_dump_packets_eof ==
    /\ pc = "eof" /\ mode = "text"
    /\ \E k \in 0..MaxInput : \E h \in TopHeads(k) :
         /\ src' = [src EXCEPT !.hd = h, !.wfk = k]
         /\ left' = TopReveal(h)
         /\ IF h.st = "eof"
            THEN /\ out' = Append(out, Note(":empty input"))
                 /\ ret' = RNP_SUCCESS
                 /\ pc' = "finish"
                 /\ stack' = stack
            ELSE /\ stack' = <<NewFrame(h, FALSE)>>
                 /\ pc' = "walk"
                 /\ UNCHANGED <<out, ret>>
    /\ UNCHANGED <<dump, lim, mode, text, ctx, jso, log, events>>

\* finish: the armored source and the indent destination are closed
stream_dump_packets_finish ==
    /\ pc = "finish" /\ mode = "text"
    /\ pc' = "done"
    /\ UNCHANGED <<dump, lim, mode, src, text, ctx, stack, out, jso, ret, left, log, events>>

(***************************************************************************)
(* stream_dump_packets_raw, the text walker                                *)
(***************************************************************************)
raw_active == pc = "walk" /\ mode = "text" /\ stack # <<>>

\* the stop reported as an error
raw_soft_stop_error == RNP_ERROR_BAD_FORMAT
\* what a walker returns when it stops at a limit that is no error
raw_soft_stop_result == RNP_SUCCESS

\* lines 1409-1418: the eof test and the nesting limit
\* the walker starts on its source with the packet counters set back
raw_enter_reset ==
    /\ raw_active /\ Top.pc = "enter"
    /\ ctx' = [ctx EXCEPT !.stream_pkts = 0, !.failures = 0]
    /\ stack' = SetTop([Top EXCEPT !.pc = "loop"])
    /\ UNCHANGED <<dump, lim, mode, pc, src, text, out, jso, ret, left, log, events>>

raw_enter ==
    /\ raw_active /\ Top.pc = "enter"
    /\ \E h \in Heads(Len(stack), Top) :
         /\ left' = Reveal(Top, h)
         /\ IF h.st = "eof"
            THEN /\ ReturnTo(RNP_SUCCESS, FALSE, <<>>)
                 /\ UNCHANGED <<ctx, out, log, events>>
            ELSE /\ ctx.layers < CounterCap
                 /\ ctx' = [ctx EXCEPT !.layers = @ + 1]
                 /\ IF TooManyLayers(ctx.layers + 1)
                    THEN /\ log' = log \cup {"Too many OpenPGP nested layers during the dump."}
                         /\ out' = Append(out, Note(":too many OpenPGP packet layers, stopping."))
                         /\ events' = events \cup Deeper
                         /\ ReturnTo(raw_soft_stop_result, FALSE, <<>>)
                    ELSE /\ stack' = SetTop([Top EXCEPT !.pc = "loop", !.hd = h])
                         /\ UNCHANGED <<out, log, ret, jso, pc, events>>
    /\ UNCHANGED <<dump, lim, mode, src, text>>

\* the failed peek leaves the loop instead of the function
raw_hdr_failure_break(hdrret) == RNP_SUCCESS
\* lines 1424-1426: `return hdrret`
raw_hdr_failure_result(hdrret) == hdrret

\* lines 1420-1437: the loop test, the header peek and the header line
raw_peek ==
    /\ raw_active /\ Top.pc = "loop"
    /\ \E h \in Heads(Len(stack), Top) :
         /\ left' = Reveal(Top, h)
         /\ \/ /\ h.st = "eof"
               /\ ReturnTo(RNP_SUCCESS, FALSE, <<>>)
               /\ UNCHANGED <<out, events>>
            \/ /\ h.st = "bad"
               /\ events' = events \cup PeekFailure
               /\ ReturnTo(raw_hdr_failure_result(RNP_ERROR_READ), FALSE, <<>>)
               /\ out' = out
            \/ /\ h.st = "pkt"
               /\ out' = Append(out, Line(":off", Top.off))
               /\ stack' = SetTop([Top EXCEPT !.pc = "dispatch", !.hd = h])
               /\ UNCHANGED <<ret, jso, pc, events>>
    /\ UNCHANGED <<dump, lim, mode, src, text, ctx, log>>


\* lines 1465-1520: the switch on hdr.tag
\* a decoder that neither counts the packet nor recurses
raw_dispatch_plain ==
    /\ raw_active /\ Top.pc = "dispatch" /\ Top.hd.tag \in PlainTags
    /\ stack' = SetTop([Consumed(Top) EXCEPT !.pc = "account",
                                             !.dret = DecoderResult(Top.hd.dec)])
    /\ UNCHANGED <<dump, lim, mode, pc, src, text, ctx, out, jso, ret, left, log, events>>

\* stream_dump_encrypted and stream_dump_literal, after ctx->stream_pkts++
raw_dispatch_stream ==
    /\ raw_active /\ Top.pc = "dispatch" /\ Top.hd.tag \in EncryptedTags \cup LiteralTags
    /\ ctx.stream_pkts < CounterCap
    /\ ctx' = [ctx EXCEPT !.stream_pkts = @ + 1]
    /\ stack' = SetTop([Consumed(Top) EXCEPT !.pc = "account",
                                             !.dret = DecoderResult(Top.hd.dec)])
    /\ UNCHANGED <<dump, lim, mode, pc, src, text, out, jso, ret, left, log, events>>

\* stream_dump_compressed, after ctx->stream_pkts++: init_compressed_src fails,
\* or the walker is called on the decompressed payload
raw_dispatch_compressed ==
    /\ raw_active /\ Top.pc = "dispatch" /\ Top.hd.tag \in CompressedTags
    /\ ctx.stream_pkts < CounterCap
    /\ ctx' = [ctx EXCEPT !.stream_pkts = @ + 1]
    /\ IF Top.hd.dec = "ok"
       THEN stack' = Append(SetTop([Top EXCEPT !.pc = "nested"]),
                            NewFrame(NoHd, Top.wf \/ Promised(Len(stack), Top)))
       ELSE stack' = SetTop([Consumed(Top) EXCEPT !.pc = "account",
                                                  !.dret = DecoderResult(Top.hd.dec)])
    /\ UNCHANGED <<dump, lim, mode, pc, src, text, out, jso, ret, left, log, events>>

\* PGP_PKT_TRUST, PGP_PKT_MDC: stream_skip_packet
raw_dispatch_skipped ==
    /\ raw_active /\ Top.pc = "dispatch" /\ Top.hd.tag \in SkippedTags
    /\ stack' = SetTop([Consumed(Top) EXCEPT !.pc = "account",
                                             !.dret = DecoderResult(Top.hd.dec)])
    /\ UNCHANGED <<dump, lim, mode, pc, src, text, ctx, out, jso, ret, left, log, events>>

\* what the default case returns when the unknown packet exceeds the limit:
\* `return ret` with ret the result of the skip that has just succeeded
raw_unknown_limit_result(skipret) == skipret

\* default: stream_skip_packet, and the packet counts as a failure
raw_dispatch_unknown ==
    /\ raw_active /\ Top.pc = "dispatch"
    /\ Top.hd.tag \notin PlainTags \cup EncryptedTags \cup CompressedTags
                         \cup LiteralTags \cup SkippedTags
    /\ LET skipret == DecoderResult(Top.hd.dec)
       IN  IF skipret # RNP_SUCCESS
           THEN /\ ReturnTo(skipret, FALSE, <<>>)
                /\ events' = events \cup {"skip failed"}
                /\ UNCHANGED <<ctx, log>>
           ELSE /\ ctx.failures < CounterCap
                /\ events' = events
                /\ ctx' = [ctx EXCEPT !.failures = @ + 1]
                /\ IF TooManyErrors(ctx.failures + 1)
                   THEN /\ log' = log \cup {"too many packet dump errors or unknown packets."}
                        /\ ReturnTo(raw_unknown_limit_result(skipret), FALSE, <<>>)
                   ELSE /\ stack' = SetTop([Consumed(Top) EXCEPT !.pc = "account",
                                                                 !.dret = skipret])
                        /\ UNCHANGED <<log, ret, jso, pc>>
    /\ UNCHANGED <<dump, lim, mode, src, text, out, left>>

\* lines 1522-1528: a failed packet counts, and too many end the walk
raw_failure ==
    /\ raw_active /\ Top.pc = "account"
    /\ IF Top.dret # RNP_SUCCESS
       THEN /\ ctx.failures < CounterCap
            /\ ctx' = [ctx EXCEPT !.failures = @ + 1]
            /\ IF TooManyErrors(ctx.failures + 1)
               THEN /\ log' = log \cup {"failed to process packet",
                                        "too many packet dump errors."}
                    /\ ReturnTo(Top.dret, FALSE, <<>>)
               ELSE /\ log' = log \cup {"failed to process packet"}
                    /\ stack' = SetTop([Top EXCEPT !.pc = "check"])
                    /\ UNCHANGED <<ret, jso, pc>>
       ELSE /\ stack' = SetTop([Top EXCEPT !.pc = "check"])
            /\ UNCHANGED <<ctx, log, ret, jso, pc>>
    /\ UNCHANGED <<dump, lim, mode, src, text, out, left, events>>

\* lines 1530-1534: too many stream packets end the walk
raw_stream_check ==
    /\ raw_active /\ Top.pc = "check"
    /\ IF TooManyStreamPkts(ctx.stream_pkts)
       THEN /\ log' = log \cup {"Too many OpenPGP stream packets during the dump."}
            /\ out' = Append(out, Note(":too many OpenPGP stream packets, stopping."))
            /\ ReturnTo(raw_soft_stop_result, FALSE, <<>>)
       ELSE /\ stack' = SetTop([Top EXCEPT !.pc = "loop", !.first = FALSE])
            /\ UNCHANGED <<out, log, ret, jso, pc>>
    /\ UNCHANGED <<dump, lim, mode, src, text, ctx, left, events>>


(***************************************************************************)
(* stream_dump_packets_json, the JSON entry point                          *)
(***************************************************************************)
stream_dump_packets_json_begin ==
    /\ pc = "call" /\ mode = "json"
    /\ ctx' = FreshCtx
    /\ pc' = IF src.cleartext THEN "skip" ELSE "armor"
    /\ UNCHANGED <<dump, lim, mode, src, text, stack, out, jso, ret, left, log, events>>

stream_dump_packets_json_armor ==
    /\ pc = "armor" /\ mode = "json"
    /\ text' = <<>>
    /\ src' = Unframed(src)
    /\ IF src.armored
       THEN \E ok \in BOOLEAN :
              IF ok
              THEN /\ pc' = "eof"
                   /\ UNCHANGED <<ret, log>>
              ELSE /\ log' = log \cup {"failed to parse armored data"}
                   /\ ret' \in init_armored_src_errors
                   /\ pc' = "done"
       ELSE /\ pc' = "eof"
            /\ UNCHANGED <<ret, log>>
    /\ UNCHANGED <<dump, lim, mode, ctx, stack, out, jso, left, events>>

\* the empty source reported as a success
json_empty_success == RNP_SUCCESS
\* what the JSON entry point returns for a source at eof (line 2694)
json_empty_result == RNP_ERROR_NOT_ENOUGH_DATA

stream_dump_packets_json_eof ==
    /\ pc = "eof" /\ mode = "json"
    /\ \E k \in 0..MaxInput : \E h \in TopHeads(k) :
         /\ src' = [src EXCEPT !.hd = h, !.wfk = k]
         /\ left' = TopReveal(h)
         /\ IF h.st = "eof"
            THEN /\ ret' = json_empty_result
                 /\ pc' = "finish"
                 /\ stack' = stack
            ELSE /\ stack' = <<NewFrame(h, FALSE)>>
                 /\ pc' = "walk"
                 /\ ret' = ret
    /\ UNCHANGED <<dump, lim, mode, text, ctx, out, jso, log, events>>

\* the armored source is closed
stream_dump_packets_json_finish ==
    /\ pc = "finish" /\ mode = "json"
    /\ pc' = "done"
    /\ UNCHANGED <<dump, lim, mode, src, text, ctx, stack, out, jso, ret, left, log, events>>

(***************************************************************************)
(* stream_dump_raw_packets_json, the JSON walker                           *)
(***************************************************************************)
json_active == pc = "walk" /\ mode = "json" /\ stack # <<>>

\* the stop reported as an error
json_soft_stop_error == RNP_ERROR_BAD_FORMAT
\* lines 2556-2561 and 2656-2663: what the JSON walker returns when it stops at
\* a limit
json_soft_stop_result == RNP_SUCCESS

\* lines 2551-2561: the eof test and the nesting limit; both hand out the
\* (empty) array
json_enter ==
    /\ json_active /\ Top.pc = "enter"
    /\ \E h \in Heads(Len(stack), Top) :
         /\ left' = Reveal(Top, h)
         /\ IF h.st = "eof"
            THEN /\ ReturnTo(RNP_SUCCESS, TRUE, Top.pkts)
                 /\ UNCHANGED <<ctx, log, events>>
            ELSE /\ ctx.layers < CounterCap
                 /\ ctx' = [ctx EXCEPT !.layers = @ + 1]
                 /\ IF TooManyLayers(ctx.layers + 1)
                    THEN /\ log' = log \cup {"Too many OpenPGP nested layers during the dump."}
                         /\ events' = events \cup Deeper
                         /\ ReturnTo(json_soft_stop_result, TRUE, Top.pkts)
                    ELSE /\ stack' = SetTop([Top EXCEPT !.pc = "loop", !.hd = h])
                         /\ UNCHANGED <<log, ret, jso, pc, events>>
    /\ UNCHANGED <<dump, lim, mode, src, text, out>>

\* lines 2570-2572: stream_dump_hdr_json has returned false
json_hdr_failure_result == RNP_ERROR_OUT_OF_MEMORY

\* lines 2563-2572 and 2662-2663: the loop test, and stream_dump_hdr_json, which
\* peeks the header and puts it into the packet's object
json_peek ==
    /\ json_active /\ Top.pc = "loop"
    /\ \E h \in Heads(Len(stack), Top) :
         /\ left' = Reveal(Top, h)
         /\ \/ /\ h.st = "eof"
               /\ ReturnTo(RNP_SUCCESS, TRUE, Top.pkts)
               /\ UNCHANGED events
            \/ /\ h.st = "bad"
               /\ events' = events \cup PeekFailure
               /\ ReturnTo(json_hdr_failure_result, FALSE, <<>>)
            \/ /\ h.st = "pkt"
               /\ stack' = SetTop([Top EXCEPT !.pc = "dispatch", !.hd = h,
                                              !.pkt = NewPkt(Top.off)])
               /\ UNCHANGED <<ret, jso, pc, events>>
    /\ UNCHANGED <<dump, lim, mode, src, text, ctx, out, log>>

\* lines 2589-2642: the switch on hdr.tag
json_dispatch_plain ==
    /\ json_active /\ Top.pc = "dispatch" /\ Top.hd.tag \in PlainTags
    /\ stack' = SetTop([Consumed(Top) EXCEPT !.pc = "account",
                                             !.dret = DecoderResult(Top.hd.dec)])
    /\ UNCHANGED <<dump, lim, mode, pc, src, text, ctx, out, jso, ret, left, log, events>>

json_dispatch_stream ==
    /\ json_active /\ Top.pc = "dispatch" /\ Top.hd.tag \in EncryptedTags \cup LiteralTags
    /\ ctx.stream_pkts < CounterCap
    /\ ctx' = [ctx EXCEPT !.stream_pkts = @ + 1]
    /\ stack' = SetTop([Consumed(Top) EXCEPT !.pc = "account",
                                             !.dret = DecoderResult(Top.hd.dec)])
    /\ UNCHANGED <<dump, lim, mode, pc, src, text, out, jso, ret, left, log, events>>

\* stream_dump_compressed_json
json_dispatch_compressed ==
    /\ json_active /\ Top.pc = "dispatch" /\ Top.hd.tag \in CompressedTags
    /\ ctx.stream_pkts < CounterCap
    /\ ctx' = [ctx EXCEPT !.stream_pkts = @ + 1]
    /\ IF Top.hd.dec = "ok"
       THEN stack' = Append(SetTop([Top EXCEPT !.pc = "nested"]),
                            NewFrame(NoHd, Top.wf \/ Promised(Len(stack), Top)))
       ELSE stack' = SetTop([Consumed(Top) EXCEPT !.pc = "account",
                                                  !.dret = DecoderResult(Top.hd.dec)])
    /\ UNCHANGED <<dump, lim, mode, pc, src, text, out, jso, ret, left, log, events>>

json_dispatch_skipped ==
    /\ json_active /\ Top.pc = "dispatch" /\ Top.hd.tag \in SkippedTags
    /\ stack' = SetTop([Consumed(Top) EXCEPT !.pc = "account",
                                             !.dret = DecoderResult(Top.hd.dec)])
    /\ UNCHANGED <<dump, lim, mode, pc, src, text, ctx, out, jso, ret, left, log, events>>

\* line 2640
json_unknown_limit_result(skipret) == RNP_ERROR_BAD_FORMAT

json_dispatch_unknown ==
    /\ json_active /\ Top.pc = "dispatch"
    /\ Top.hd.tag \notin PlainTags \cup EncryptedTags \cup CompressedTags
                         \cup LiteralTags \cup SkippedTags
    /\ LET skipret == DecoderResult(Top.hd.dec)
       IN  IF skipret # RNP_SUCCESS
           THEN /\ ReturnTo(skipret, FALSE, <<>>)
                /\ events' = events \cup {"skip failed"}
                /\ UNCHANGED <<ctx, log>>
           ELSE /\ ctx.failures < CounterCap
                /\ events' = events
                /\ ctx' = [ctx EXCEPT !.failures = @ + 1]
                /\ IF TooManyErrors(ctx.failures + 1)
                   THEN /\ log' = log \cup {"too many packet dump errors or unknown packets."}
                        /\ ReturnTo(json_unknown_limit_result(skipret), FALSE, <<>>)
                   ELSE /\ stack' = SetTop([Consumed(Top) EXCEPT !.pc = "account",
                                                                 !.dret = skipret])
                        /\ UNCHANGED <<log, ret, jso, pc>>
    /\ UNCHANGED <<dump, lim, mode, src, text, out, left>>

\* lines 2644-2650
json_failure ==
    /\ json_active /\ Top.pc = "account"
    /\ IF Top.dret # RNP_SUCCESS
       THEN /\ ctx.failures < CounterCap
            /\ ctx' = [ctx EXCEPT !.failures = @ + 1]
            /\ IF TooManyErrors(ctx.failures + 1)
               THEN /\ log' = log \cup {"failed to process packet",
                                        "too many packet dump errors."}
                    /\ ReturnTo(Top.dret, FALSE, <<>>)
               ELSE /\ log' = log \cup {"failed to process packet"}
                    /\ stack' = SetTop([Top EXCEPT !.pc = "check"])
                    /\ UNCHANGED <<ret, jso, pc>>
       ELSE /\ stack' = SetTop([Top EXCEPT !.pc = "check"])
            /\ UNCHANGED <<ctx, log, ret, jso, pc>>
    /\ UNCHANGED <<dump, lim, mode, src, text, out, left, events>>

\* lines 2652-2663: the packet's object joins the array, and too many stream
\* packets leave the loop
json_stream_check ==
    /\ json_active /\ Top.pc = "check"
    /\ LET arr == json_object_array_add(Top.pkts, Top.pkt)
       IN  IF TooManyStreamPkts(ctx.stream_pkts)
           THEN /\ log' = log \cup {"Too many OpenPGP stream packets during the dump."}
                /\ ReturnTo(json_soft_stop_result, TRUE, arr)
           ELSE /\ stack' = SetTop([Top EXCEPT !.pc = "loop", !.first = FALSE,
                                               !.pkts = arr, !.pkt = NoPkt])
                /\ UNCHANGED <<log, ret, jso, pc>>
    /\ UNCHANGED <<dump, lim, mode, src, text, ctx, out, left, events>>

(***************************************************************************)
(* The specification                                                       *)
(***************************************************************************)
Next ==
    \/ stream_skip_cleartext
    \/ stream_dump_packets_begin
    \/ stream_dump_packets_armor
    \/ stream_dump_packets_eof
    \/ stream_dump_packets_finish
    \/ raw_enter
    \/ raw_peek
    \/ raw_dispatch_plain
    \/ raw_dispatch_stream
    \/ raw_dispatch_compressed
    \/ raw_dispatch_skipped
    \/ raw_dispatch_unknown
    \/ raw_failure
    \/ raw_stream_check
    \/ stream_dump_packets_json_begin
    \/ stream_dump_packets_json_armor
    \/ stream_dump_packets_json_eof
    \/ stream_dump_packets_json_finish
    \/ json_enter
    \/ json_peek
    \/ json_dispatch_plain
    \/ json_dispatch_stream
    \/ json_dispatch_compressed
    \/ json_dispatch_skipped
    \/ json_dispatch_unknown
    \/ json_failure
    \/ json_stream_check

Spec == Init /\ [][Next]_vars

\* the call is single-threaded and nothing in it waits: it always takes its
\* next step
FairSpec == Spec /\ WF_vars(Next)


(***************************************************************************)
(* Vocabulary of the claims                                                *)
(***************************************************************************)
Done == pc = "done"
InWalker == pc = "walk" /\ stack # <<>>
\* a header has been peeked and its packet is about to be dispatched
AtDispatch == InWalker /\ Top.pc = "dispatch"
\* this step dispatches a packet
Dispatches == AtDispatch /\ stack' # stack
\* this step is the return of the walker on top of the stack, with result r
Returns(r) ==
    /\ InWalker
    /\ Len(stack') = Len(stack) - 1
    /\ IF Len(stack) = 1 THEN ret' = r ELSE stack'[Len(stack')].dret = r
\* this step stays in the walker on top of the stack and takes it to p
GoesTo(p) == Len(stack') = Len(stack) /\ stack'[Len(stack)].pc = p
\* this step peeks a packet header, with or without success (at eof the walker
\* returns RNP_SUCCESS without peeking)
HeaderPeeked ==
    /\ InWalker /\ Top.pc = "loop"
    /\ \/ GoesTo("dispatch")
       \/ Len(stack') < Len(stack) /\ ~Returns(RNP_SUCCESS)
SoftStopLogs == {"Too many OpenPGP nested layers during the dump.",
                 "Too many OpenPGP stream packets during the dump."}
SoftStopped == log \cap SoftStopLogs # {}

(***************************************************************************)
(* C1                                                                      *)
(***************************************************************************)
\* C1 (as claimed): when a dump has ended with ctx->failures above
\* MAXIMUM_ERROR_PKTS, the entry point has returned a failure.
C1_failures_exceeded_fails ==
    (Done /\ ctx.failures > MAXIMUM_ERROR_PKTS) => ret # RNP_SUCCESS

(***************************************************************************)
(* C2                                                                      *)
(***************************************************************************)
\* C2 (as claimed): once ctx->stream_pkts is above MAXIMUM_STREAM_PKTS, no step
\* peeks a packet header and no step dispatches a packet, at any level.
C2_no_peek_after_stream_limit ==
    [][ctx.stream_pkts > MAXIMUM_STREAM_PKTS => ~HeaderPeeked /\ ~Dispatches]_vars

\* C2 (amended): once ctx->stream_pkts is above MAXIMUM_STREAM_PKTS, no walker
\* invocation begins another loop iteration: a header is peeked only by an
\* invocation in its first iteration (the walker of a compressed layer entered
\* by the packet that took the count over the limit, or by a packet inside it),
\* and an invocation that reaches the test at the end of its iteration returns
\* RNP_SUCCESS.
C2_no_second_iteration_after_stream_limit ==
    [][ctx.stream_pkts > MAXIMUM_STREAM_PKTS =>
          /\ HeaderPeeked => Top.first
          /\ (InWalker /\ Top.pc = "check") => Returns(RNP_SUCCESS)]_vars

\* a header is peeked inside a compressed layer while the count is over the limit
C2_witness ==
    /\ AtDispatch /\ Len(stack) > 1 /\ Top.first
    /\ ctx.stream_pkts > MAXIMUM_STREAM_PKTS

StreamLimitBelowNestingLimit == MAXIMUM_STREAM_PKTS < MAXIMUM_NESTING_LEVEL

FirstPeekFailure == "peek failed" \notin events /\ "peek failed" \in events'

FailureBelowLimit ==
    /\ InWalker /\ Top.pc = "account" /\ Top.dret # RNP_SUCCESS
    /\ ctx.failures + 1 <= MAXIMUM_ERROR_PKTS
\* the failure has been counted, and the walker has not returned
FailureCounted == InWalker /\ Top.pc = "check" /\ Top.dret # RNP_SUCCESS

\* C5 (as claimed): a walker whose packet has failed, with ctx->failures still
\* within MAXIMUM_ERROR_PKTS after the increment, does not return: it goes back
\* to the loop test, where it peeks the next header or ends at eof.
C5_failure_below_limit_continues ==
    [][/\ FailureBelowLimit => GoesTo("check")
       /\ FailureCounted => GoesTo("loop")]_vars

\* C5 (amended): ... does not return on account of the failure; it goes back to
\* the loop test unless ctx->stream_pkts is above MAXIMUM_STREAM_PKTS, in which
\* case it returns RNP_SUCCESS.
C5_failure_below_limit_continues_unless_stream_limit ==
    [][/\ FailureBelowLimit => GoesTo("check")
       /\ FailureCounted =>
             IF ctx.stream_pkts > MAXIMUM_STREAM_PKTS
             THEN Returns(RNP_SUCCESS)
             ELSE GoesTo("loop")]_vars

\* a walker is back at its loop test after a failed packet
C5_witness ==
    /\ InWalker /\ Top.pc = "loop" /\ Top.dret # RNP_SUCCESS /\ ~Top.first
    /\ ctx.failures > 0 /\ ctx.failures <= MAXIMUM_ERROR_PKTS


(***************************************************************************)
(* C6                                                                      *)
(***************************************************************************)
\* the source, with its framing taken off, was at eof before any packet
EmptyStream == src.hd.st = "eof"
\* the packet header lines of the text dump
HeaderLines == {i \in 1..Len(out) : out[i].k = ":off"}

LayerStop ==
    /\ InWalker /\ Top.pc = "enter"
    /\ ctx'.layers = ctx.layers + 1 /\ ctx'.layers > MAXIMUM_NESTING_LEVEL
\* this step is a walker finding the stream packet limit exceeded
StreamStop ==
    InWalker /\ Top.pc = "check" /\ ctx.stream_pkts > MAXIMUM_STREAM_PKTS

\* C7: a walker that finds the nesting limit or the stream packet limit exceeded
\* returns RNP_SUCCESS and leaves ctx->failures as it is; and when a dump with
\* such a stop ends with an error, ctx->failures is above MAXIMUM_ERROR_PKTS or a
\* header peek or the skip of an unknown packet has failed.
C7_soft_stop_is_no_error ==
    [][/\ (LayerStop \/ StreamStop) =>
             Returns(RNP_SUCCESS) /\ ctx'.failures = ctx.failures
       /\ (SoftStopped' /\ pc' = "done" /\ ret' # RNP_SUCCESS) =>
             \/ ctx'.failures > MAXIMUM_ERROR_PKTS
             \/ events' \cap {"peek failed", "skip failed"} # {}]_vars

\* a dump that was stopped at a limit has ended with RNP_SUCCESS and no failure
C7_witness == Done /\ SoftStopped /\ ret = RNP_SUCCESS /\ ctx.failures = 0

(***************************************************************************)
(* C8                                                                      *)
(***************************************************************************)
LayersNote == ":too many OpenPGP packet layers, stopping."
StreamNote == ":too many OpenPGP stream packets, stopping."
\* the text output holds a note of a stop
TextNoted == \E i \in 1..Len(out) : out[i].k \in {LayersNote, StreamNote}
\* the JSON array, or an array within it, holds an object that is a note and
\* not a packet
RECURSIVE JsonNoted(_)
JsonNoted(arr) ==
    \E i \in 1..Len(arr) :
        \/ "off" \notin DOMAIN arr[i]
        \/ arr[i].has /\ JsonNoted(arr[i].contents)

TextRecords ==
    \A o \in 0..(src.wfk - 1) :
        \E i \in 1..Len(out) : out[i] = [k |-> ":off", off |-> o, ind |-> 0]
JsonRecords ==
    \A o \in 0..(src.wfk - 1) :
        jso.set /\ \E i \in 1..Len(jso.pkts) : jso.pkts[i].off = o
PrefixRecorded == IF mode = "text" THEN TextRecords ELSE JsonRecords

\* C9 (as claimed): the output delivered holds the records of the well-formed
\* packets the stream begins with, whatever follows them.
C9_prefix_is_recorded == Done => PrefixRecorded

\* C9 (amended): unless a walker was stopped at the nesting or the stream
\* packet limit, the text output holds the header lines of the well-formed
\* packets the stream begins with, whatever follows them, and so does the JSON
\* array when stream_dump_packets_json returns RNP_SUCCESS; when it returns an
\* error, *jso is not set and no record is delivered.
C9_prefix_is_recorded_in_text_and_on_json_success ==
    Done =>
        /\ (~SoftStopped /\ (mode = "json" => ret = RNP_SUCCESS)) => PrefixRecorded
        /\ (mode = "json" /\ ret # RNP_SUCCESS) => ~jso.set

\* a text dump has failed after two well-formed packets or more
C9_witness ==
    /\ Done /\ mode = "text" /\ src.wfk >= 2
    /\ ret # RNP_SUCCESS /\ ~SoftStopped

(***************************************************************************)
(* C10                                                                     *)
(***************************************************************************)
\* C10: every dump call returns.
C10_every_dump_returns == <>Done

\* a dump has ended whose first packet's decoder kept failing without consuming
\* a byte
C10_witness ==
    Done /\ src.hd.st = "pkt" /\ src.hd.dec = "stuck" /\ ctx.failures > MAXIMUM_ERROR_PKTS

(***************************************************************************)
(* A caller that dumps twice with one rnp_dump_ctx_t: when the first call   *)
(* has returned, it calls either entry point again with the context as the  *)
(* first call left it, on a new source, binary or armored, and a new        *)
(* destination.  The second call is known by the mark in events.  Each call *)
(* reads at most MaxInput - 1 stream positions.                             *)
(***************************************************************************)
ReuseInit ==
    /\ lim \in [nest : 1..MaxLimit, stream : 1..MaxLimit]
    /\ mode \in {"text", "json"}
    /\ pc = "call"
    /\ src \in [cleartext : BOOLEAN, armored : BOOLEAN, wfk : {0}, hd : {NoHd}]
    /\ text \in (IF src.cleartext THEN SeqsUpTo(Bytes, MaxText) ELSE {<<>>})
    /\ ctx = FreshCtx
    /\ stack = <<>>
    /\ out = <<>>
    /\ jso = [set |-> FALSE, pkts |-> <<>>]
    /\ ret = RNP_ERROR_GENERIC
    /\ left = MaxInput - 1
    /\ log = {}
    /\ events = {}
    /\ dump = NoDump

call_again ==
    /\ pc = "done" /\ "second call" \notin events
    /\ pc' = "call"
    /\ mode' \in {"text", "json"}
    /\ src' \in [cleartext : {FALSE}, armored : BOOLEAN, wfk : {0}, hd : {NoHd}]
    /\ text' = <<>>
    /\ stack' = <<>>
    /\ out' = <<>>
    /\ jso' = [set |-> FALSE, pkts |-> <<>>]
    /\ ret' = RNP_ERROR_GENERIC
    /\ left' = MaxInput - 1
    /\ log' = {}
    /\ events' = {"second call"}
    /\ UNCHANGED <<dump, lim, ctx>>

ReuseNext == call_again \/ Next

ReuseSpec == ReuseInit /\ [][ReuseNext]_vars

(***************************************************************************)
(* The field decoders, each a function of the packet it is handed: what it *)
(* writes (the text lines by their labels, the JSON members by their       *)
(* paths) and what it returns.  The packet is known by what the decoder    *)
(* branches on: the outcome of its parse, the fields tested, and the       *)
(* outcomes of the functions of other files called on it (parse_material,  *)
(* pgp_keyid, pgp_fingerprint, get_grip, pgp_block_size).                  *)
(***************************************************************************)
PGP_V3 == 3
PGP_V4 == 4
PGP_V5 == 5

\* public-key algorithms: two the switches know, and a code they do not
PubkeyAlgs == {"PGP_PKA_RSA", "PGP_PKA_DSA", "other"}
\* s2k usage octets: PGP_S2KU_NONE is 0; "other" is a cipher code
S2kUsages == {"PGP_S2KU_NONE", "PGP_S2KU_ENCRYPTED_AND_HASHED",
              "PGP_S2KU_ENCRYPTED", "other"}
S2ks == {[specifier |-> "PGP_S2KS_SALTED", gpg_ext_num |-> 0],
         [specifier |-> "PGP_S2KS_EXPERIMENTAL", gpg_ext_num |-> 0],
         [specifier |-> "PGP_S2KS_EXPERIMENTAL", gpg_ext_num |-> 1]}
ParseOutcomes == {"ok", "fail", "throw"}

SignaturePkts ==
    [kind : {"signature"}, parse : ParseOutcomes, version : {PGP_V3, PGP_V4},
     palg : PubkeyAlgs, material_throws : BOOLEAN,
     subpkts : {<<>>}, inner : {<<>>}]
KeyPkts ==
    [kind : {"key"}, parse : ParseOutcomes, secret : BOOLEAN,
     version : {PGP_V3, PGP_V4, PGP_V5}, alg : {"PGP_PKA_RSA", "other"},
     usage : S2kUsages, s2k : S2ks, block_size : BOOLEAN,
     keyid : BOOLEAN, fingerprint : BOOLEAN, grip : BOOLEAN]
OtherKinds == {"userid", "pk session key", "sk session key", "one pass",
               "literal", "compressed", "encrypted", "aead", "marker"}
\* the signature case counts a stream packet too
StreamKinds_signature == {"literal", "compressed", "encrypted", "aead", "signature"}
\* the kinds whose case of the switch counts a stream packet
StreamKinds == {"literal", "compressed", "encrypted", "aead"}
OtherPkts == [kind : OtherKinds, parse : {"ok", "fail"}]
DecoderPkts == SignaturePkts \cup KeyPkts \cup OtherPkts

\* the result of pkt.parse(*src) inside its try block
Parsed(p) ==
    IF p.parse = "ok" THEN RNP_SUCCESS
    ELSE IF p.parse = "throw" THEN RNP_ERROR_GENERIC
    ELSE RNP_ERROR_BAD_FORMAT

When(c, ls) == IF c THEN ls ELSE <<>>
Dumped(r, ls) == [ret |-> r, lines |-> ls]

dst_print_s2k(s2k) ==
    <<"s2k specifier">> \o
    (IF s2k.specifier = "PGP_S2KS_EXPERIMENTAL" /\ s2k.gpg_ext_num # 0
     THEN <<"GPG extension num">>
     ELSE IF s2k.specifier = "PGP_S2KS_EXPERIMENTAL"
     THEN <<"Unknown experimental s2k">>
     ELSE <<"s2k hash algorithm">> \o
          When(s2k.specifier \in {"PGP_S2KS_SALTED", "PGP_S2KS_ITERATED_AND_SALTED"},
               <<"s2k salt">>) \o
          When(s2k.specifier = "PGP_S2KS_ITERATED_AND_SALTED", <<"s2k iterations">>))

obj_add_s2k_json(s2k) ==
    <<"material.s2k", "material.s2k.specifier">> \o
    When(s2k.specifier = "PGP_S2KS_EXPERIMENTAL" /\ s2k.gpg_ext_num # 0,
         <<"material.s2k.gpg extension">>) \o
    (IF s2k.specifier = "PGP_S2KS_EXPERIMENTAL"
     THEN <<"material.s2k.unknown experimental">>
     ELSE <<"material.s2k.hash algorithm">> \o
          When(s2k.specifier \in {"PGP_S2KS_SALTED", "PGP_S2KS_ITERATED_AND_SALTED"},
               <<"material.s2k.salt">>) \o
          When(s2k.specifier = "PGP_S2KS_ITERATED_AND_SALTED",
               <<"material.s2k.iterations">>))

(***************************************************************************)
(* Signatures                                                              *)
(***************************************************************************)
\* the default case writes nothing
SignatureMaterial_silent(palg) ==
    IF palg = "PGP_PKA_RSA" THEN <<"rsa s">>
    ELSE IF palg = "PGP_PKA_DSA" THEN <<"dsa r", "dsa s">>
    ELSE <<>>

\* the switch on sig->palg behind parse_material
SignatureMaterial(palg) ==
    IF palg = "PGP_PKA_RSA" THEN <<"rsa s">>
    ELSE IF palg = "PGP_PKA_DSA" THEN <<"dsa r", "dsa s">>
    ELSE <<"unknown algorithm">>

\* param->level of the indent destination
indent_dest_increase(level) == level + 1
indent_dest_decrease(level) == IF level > 0 THEN level - 1 ELSE level

\* what a printing function wrote, and the level it leaves
Printed(ls, lvl) == [lines |-> ls, level |-> lvl]

\* the embedded signature of a subpacket, subpkt.fields.sig
EmbeddedSig(sig) == sig.inner[1]

RECURSIVE stream_dump_signature_pkt(_, _, _)
RECURSIVE SubpacketsFrom(_, _, _, _, _)

\* the default case dumps the data whatever ctx->dump_packets is
signature_dump_subpacket_always(dump_packets, sig, subpkt, level) ==
    IF subpkt.type = "PGP_SIG_SUBPKT_CREATION_TIME"
    THEN Printed(<<"signature creation time">>, level)
    ELSE IF subpkt.type = "PGP_SIG_SUBPKT_EMBEDDED_SIGNATURE"
    THEN LET r == stream_dump_signature_pkt(dump_packets, EmbeddedSig(sig), level)
         IN  Printed(<<"embedded signature:">> \o r.lines, r.level)
    ELSE Printed(<<"hexdump">>, indent_dest_decrease(indent_dest_increase(level)))

signature_dump_subpacket(dump_packets, sig, subpkt, level) ==
    IF subpkt.type = "PGP_SIG_SUBPKT_CREATION_TIME"
    THEN Printed(<<"signature creation time">>, level)
    ELSE IF subpkt.type = "PGP_SIG_SUBPKT_EMBEDDED_SIGNATURE"
    THEN LET r == stream_dump_signature_pkt(dump_packets, EmbeddedSig(sig), level)
         IN  Printed(<<"embedded signature:">> \o r.lines, r.level)
    ELSE IF ~dump_packets
    THEN Printed(<<"hexdump">>, indent_dest_decrease(indent_dest_increase(level)))
    ELSE Printed(<<>>, level)

\* the loop of signature_dump_subpackets from subpacket i on
SubpacketsFrom(dump_packets, sig, hashed, i, level) ==
    IF i > Len(sig.subpkts) THEN Printed(<<>>, level)
    ELSE IF sig.subpkts[i].hashed # hashed
    THEN SubpacketsFrom(dump_packets, sig, hashed, i + 1, level)
    ELSE LET contents == IF dump_packets
                         THEN Printed(<<":subpacket contents:", "hexdump">>,
                                      indent_dest_decrease(indent_dest_increase(level)))
                         ELSE Printed(<<>>, level)
             own == signature_dump_subpacket(dump_packets, sig, sig.subpkts[i],
                                             contents.level)
             rest == SubpacketsFrom(dump_packets, sig, hashed, i + 1, own.level)
         IN  Printed(<<":type " \o sig.subpkts[i].type>> \o contents.lines
                         \o own.lines \o rest.lines,
                     rest.level)

signature_dump_subpackets(dump_packets, sig, hashed, level) ==
    IF \A i \in 1..Len(sig.subpkts) : sig.subpkts[i].hashed # hashed
    THEN Printed(<<"none">>, level)
    ELSE SubpacketsFrom(dump_packets, sig, hashed, 1, level)

stream_dump_signature_pkt(dump_packets, sig, level) ==
    LET head == <<"version", "type">> \o
                When(sig.version < PGP_V4, <<"creation time", "signing key id">>) \o
                <<"public key algorithm", "hash algorithm">>
        l1 == indent_dest_increase(level)
        hs == signature_dump_subpackets(dump_packets, sig, TRUE,
                                        indent_dest_increase(l1))
        l2 == indent_dest_decrease(hs.level)
        us == signature_dump_subpackets(dump_packets, sig, FALSE,
                                        indent_dest_increase(l2))
        l3 == indent_dest_decrease(us.level)
        subpackets == IF sig.version >= PGP_V4
                      THEN Printed(<<"hashed subpackets:">> \o hs.lines \o
                                   <<"unhashed subpackets:">> \o us.lines, l3)
                      ELSE Printed(<<>>, l1)
        l4 == indent_dest_increase(subpackets.level)
        upto == head \o subpackets.lines \o <<"lbits", "signature material:">>
    IN  IF sig.material_throws
        THEN Printed(upto, l4)
        ELSE Printed(upto \o SignatureMaterial(sig.palg),
                     indent_dest_decrease(indent_dest_decrease(l4)))

\* a text decoder's result with the level it leaves
Indented(r, p) == [ret |-> r, lines |-> p.lines, level |-> p.level]

\* the parse failure is not written
stream_dump_signature_quiet(dump_packets, sig, level) ==
    IF Parsed(sig) # RNP_SUCCESS
    THEN Indented(Parsed(sig), Printed(<<"Signature packet">>, level))
    ELSE LET r == stream_dump_signature_pkt(dump_packets, sig, level)
         IN  Indented(RNP_SUCCESS, Printed(<<"Signature packet">> \o r.lines, r.level))

stream_dump_signature(dump_packets, sig, level) ==
    IF Parsed(sig) # RNP_SUCCESS
    THEN Indented(Parsed(sig),
                  Printed(<<"Signature packet", "failed to parse">>,
                          indent_dest_decrease(indent_dest_increase(level))))
    ELSE LET r == stream_dump_signature_pkt(dump_packets, sig, level)
         IN  Indented(RNP_SUCCESS, Printed(<<"Signature packet">> \o r.lines, r.level))

SignatureMaterialJson(palg) ==
    IF palg = "PGP_PKA_RSA" THEN <<"material.s">>
    ELSE IF palg = "PGP_PKA_DSA" THEN <<"material.r", "material.s">>
    ELSE <<>>

RECURSIVE stream_dump_signature_pkt_json(_, _)
RECURSIVE SubpacketsJsonFrom(_, _, _)

\* a bool result with the members added to the subpacket's object
Added(ok, ls) == [ok |-> ok, lines |-> ls]

signature_dump_subpacket_json(dump_packets, sig, subpkt) ==
    IF subpkt.type = "PGP_SIG_SUBPKT_CREATION_TIME"
    THEN Added(TRUE, <<"subpackets.creation time">>)
    ELSE IF subpkt.type = "PGP_SIG_SUBPKT_EMBEDDED_SIGNATURE"
    THEN LET r == stream_dump_signature_pkt_json(dump_packets, EmbeddedSig(sig))
         IN  Added(r.ret = RNP_SUCCESS, <<"subpackets.signature">> \o r.lines)
    ELSE IF ~dump_packets
    THEN Added(TRUE, <<"subpackets.raw">>)
    ELSE Added(TRUE, <<>>)

\* the loop of signature_dump_subpackets_json from subpacket i on; not ok is
\* the NULL it returns
SubpacketsJsonFrom(dump_packets, sig, i) ==
    IF i > Len(sig.subpkts) THEN Added(TRUE, <<>>)
    ELSE LET own == signature_dump_subpacket_json(dump_packets, sig, sig.subpkts[i])
             rest == SubpacketsJsonFrom(dump_packets, sig, i + 1)
         IN  IF ~own.ok \/ ~rest.ok THEN Added(FALSE, <<>>)
             ELSE Added(TRUE,
                        <<"subpackets.type " \o sig.subpkts[i].type,
                          "subpackets.length", "subpackets.hashed",
                          "subpackets.critical">> \o
                        When(dump_packets, <<"subpackets.raw">>) \o
                        own.lines \o rest.lines)

signature_dump_subpackets_json(dump_packets, sig) ==
    SubpacketsJsonFrom(dump_packets, sig, 1)

stream_dump_signature_pkt_json(dump_packets, sig) ==
    LET head == <<"version", "type">> \o
                When(sig.version < PGP_V4, <<"creation time", "signer">>) \o
                <<"algorithm", "hash algorithm">>
        subpkts == signature_dump_subpackets_json(dump_packets, sig)
        upto == head \o
                When(sig.version >= PGP_V4, <<"subpackets">> \o subpkts.lines) \o
                <<"lbits", "material">>
    IN  IF sig.version >= PGP_V4 /\ ~subpkts.ok
        THEN Dumped(RNP_ERROR_OUT_OF_MEMORY, head)
        ELSE IF sig.material_throws
        THEN Dumped(RNP_ERROR_OUT_OF_MEMORY, upto)
        ELSE Dumped(RNP_SUCCESS, upto \o SignatureMaterialJson(sig.palg))

stream_dump_signature_json(dump_packets, sig) ==
    IF Parsed(sig) # RNP_SUCCESS
    THEN Dumped(Parsed(sig), <<>>)
    ELSE stream_dump_signature_pkt_json(dump_packets, sig)

(***************************************************************************)
(* Keys                                                                    *)
(***************************************************************************)
KeyMaterial(alg) ==
    IF alg = "PGP_PKA_RSA" THEN <<"rsa n", "rsa e">>
    ELSE <<"unknown public key algorithm">>

\* the protection fields are written under every usage
S2kDumped_always(usage) == TRUE

\* the usages under which stream_dump_key writes the protection fields
S2kDumped(usage) ==
    usage \in {"PGP_S2KU_ENCRYPTED", "PGP_S2KU_ENCRYPTED_AND_HASHED"}

SecretKeyMaterial(key) ==
    <<"secret key material:", "s2k usage">> \o
    When(key.version = PGP_V5, <<"v5 s2k length">>) \o
    When(S2kDumped(key.usage),
         <<"symmetric algorithm">> \o dst_print_s2k(key.s2k) \o
         When(key.s2k.specifier # "PGP_S2KS_EXPERIMENTAL",
              IF key.block_size THEN <<"cipher iv">>
              ELSE <<"cipher iv: unknown algorithm">>)) \o
    When(key.version = PGP_V5, <<"v5 secret key data length">>) \o
    (IF key.usage = "PGP_S2KU_NONE" THEN <<"cleartext secret key data">>
     ELSE <<"encrypted secret key data">>)

\* what is written for a value of the key that could not be computed
KeyValueFailed(label) == <<label \o ": failed to calculate">>

stream_dump_key(key, dump_grips) ==
    IF Parsed(key) # RNP_SUCCESS
    THEN Dumped(Parsed(key), <<>>)
    ELSE Dumped(RNP_SUCCESS,
           <<"Key packet", "version", "creation time">> \o
           When(key.version < PGP_V4, <<"v3 validity days">>) \o
           <<"public key algorithm">> \o
           When(key.version = PGP_V5, <<"v5 public key material length">>) \o
           <<"public key material:">> \o KeyMaterial(key.alg) \o
           When(key.secret, SecretKeyMaterial(key)) \o
           (IF key.keyid THEN <<"keyid">> ELSE KeyValueFailed("keyid")) \o
           When(key.version > PGP_V3 /\ dump_grips,
                IF key.fingerprint THEN <<"fingerprint">>
                ELSE KeyValueFailed("fingerprint")) \o
           When(dump_grips,
                IF key.grip THEN <<"grip">> ELSE KeyValueFailed("grip")))

KeyMaterialJson(alg) ==
    IF alg = "PGP_PKA_RSA" THEN <<"material.n", "material.e">> ELSE <<>>

SecretKeyMaterialJson(key) ==
    <<"material.s2k usage">> \o
    When(key.version = PGP_V5, <<"material.v5 s2k length">>) \o
    obj_add_s2k_json(key.s2k) \o
    When(key.usage # "PGP_S2KU_NONE", <<"material.symmetric algorithm">>) \o
    When(key.version = PGP_V5, <<"material.v5 secret key data length">>)

stream_dump_key_json(key, dump_grips) ==
    LET body == <<"version", "creation time">> \o
                When(key.version < PGP_V4, <<"v3 days">>) \o
                <<"algorithm">> \o
                When(key.version = PGP_V5, <<"v5 public key material length">>) \o
                <<"material">> \o KeyMaterialJson(key.alg) \o
                When(key.secret, SecretKeyMaterialJson(key))
    IN  IF Parsed(key) # RNP_SUCCESS THEN Dumped(Parsed(key), <<>>)
        ELSE IF ~key.keyid THEN Dumped(RNP_ERROR_OUT_OF_MEMORY, body)
        ELSE IF ~dump_grips THEN Dumped(RNP_SUCCESS, body \o <<"keyid">>)
        ELSE IF ~key.fingerprint
        THEN Dumped(RNP_ERROR_OUT_OF_MEMORY, body \o <<"keyid">>)
        ELSE IF ~key.grip
        THEN Dumped(RNP_ERROR_OUT_OF_MEMORY, body \o <<"keyid", "fingerprint">>)
        ELSE Dumped(RNP_SUCCESS, body \o <<"keyid", "fingerprint", "grip">>)

(***************************************************************************)
(* The other packets.  The compressed packet tried here has an empty       *)
(* payload: the walker called on it returns at its end-of-input test.      *)
(***************************************************************************)
stream_dump_other(p) ==
    LET ok == p.parse = "ok"
        r == IF ok THEN RNP_SUCCESS ELSE RNP_ERROR_BAD_FORMAT
    IN  CASE p.kind = "userid" ->
               Dumped(r, When(ok, <<"UserID packet", "id">>))
          [] p.kind = "pk session key" ->
               Dumped(r, When(ok, <<"Public-key encrypted session key packet",
                                    "version", "key id", "public key algorithm",
                                    "encrypted material:">>))
          [] p.kind = "sk session key" ->
               Dumped(r, When(ok, <<"Symmetric-key encrypted session key packet",
                                    "version", "symmetric algorithm",
                                    "s2k specifier", "encrypted key">>))
          [] p.kind = "one pass" ->
               Dumped(r, When(ok, <<"One-pass signature packet", "version", "type",
                                    "hash algorithm", "public key algorithm",
                                    "signing key id", "nested">>))
          [] p.kind = "literal" ->
               Dumped(r, When(ok, <<"Literal data packet", "data format",
                                    "filename", "timestamp", "data bytes">>))
          [] p.kind = "compressed" ->
               Dumped(r, When(ok, <<"Compressed data packet",
                                    "compression algorithm",
                                    "Decompressed contents:">>))
          [] p.kind = "encrypted" ->
               Dumped(IF ok THEN RNP_SUCCESS ELSE RNP_ERROR_READ,
                      <<"Symmetrically-encrypted data packet">>)
          [] p.kind = "aead" ->
               IF ok
               THEN Dumped(RNP_SUCCESS,
                           <<"AEAD-encrypted data packet", "version",
                             "symmetric algorithm", "aead algorithm",
                             "chunk size", "initialization vector">>)
               ELSE Dumped(RNP_ERROR_READ,
                           <<"AEAD-encrypted data packet",
                             "ERROR: failed to read AEAD header">>)
          [] p.kind = "marker" ->
               Dumped(r, <<"Marker packet",
                           IF ok THEN "contents: PGP" ELSE "contents: invalid">>)

stream_dump_other_json(p) ==
    LET ok == p.parse = "ok"
        r == IF ok THEN RNP_SUCCESS ELSE RNP_ERROR_BAD_FORMAT
    IN  CASE p.kind = "userid" -> Dumped(r, When(ok, <<"userid">>))
          [] p.kind = "pk session key" ->
               Dumped(r, When(ok, <<"version", "keyid", "algorithm", "material">>))
          [] p.kind = "sk session key" ->
               Dumped(r, When(ok, <<"version", "algorithm", "s2k", "encrypted key">>))
          [] p.kind = "one pass" ->
               Dumped(r, When(ok, <<"version", "type", "hash algorithm",
                                    "public key algorithm", "signer", "nested">>))
          [] p.kind = "literal" ->
               Dumped(r, When(ok, <<"format", "filename", "timestamp", "datalen">>))
          [] p.kind = "compressed" ->
               Dumped(r, When(ok, <<"algorithm", "contents">>))
          [] p.kind = "encrypted" ->
               Dumped(IF ok THEN RNP_SUCCESS ELSE RNP_ERROR_READ, <<>>)
          [] p.kind = "aead" ->
               IF ok
               THEN Dumped(RNP_SUCCESS, <<"version", "algorithm", "aead algorithm",
                                          "chunk size", "aead iv">>)
               ELSE Dumped(RNP_ERROR_READ, <<>>)
          [] p.kind = "marker" -> Dumped(r, <<"contents">>)

(***************************************************************************)
(* One packet through a walker's switch and its failure accounting: the    *)
(* decoder of the packet's kind is called, then a result other than        *)
(* success is logged and counted.                                          *)
(***************************************************************************)
DecoderInit ==
    /\ lim = [nest |-> 1, stream |-> 1]
    /\ mode \in {"text", "json"}
    /\ pc = "decode"
    /\ src = [cleartext |-> FALSE, armored |-> FALSE, wfk |-> 0, hd |-> NoHd]
    /\ text = <<>>
    /\ ctx \in [layers : {1}, stream_pkts : {0}, failures : 0..MAXIMUM_ERROR_PKTS]
    /\ stack = <<>>
    /\ out = <<>>
    /\ jso = [set |-> FALSE, pkts |-> <<>>]
    /\ ret = RNP_ERROR_GENERIC
    /\ left = 0
    /\ log = {}
    /\ events = {}
    /\ dump \in [stage : {"dispatch"}, pkt : DecoderPkts, dump_grips : BOOLEAN,
                 dump_packets : {FALSE}, level : {0},
                 ret : {RNP_ERROR_GENERIC}, lines : {<<>>}]

\* an exception was caught by a handler that logs it
RECURSIVE MaterialThrows(_)
\* parse_material throws for the signature or for one embedded in it
MaterialThrows(sig) ==
    \/ sig.material_throws
    \/ sig.inner # <<>> /\ MaterialThrows(EmbeddedSig(sig))

Thrown(p) ==
    \/ p.kind \in {"signature", "key"} /\ p.parse = "throw"
    \/ p.kind = "signature" /\ p.parse = "ok" /\ MaterialThrows(p)

Decoded(d) ==
    /\ dump' = [dump EXCEPT !.stage = "account", !.ret = d.ret, !.lines = d.lines,
                            !.level = IF "level" \in DOMAIN d THEN d.level ELSE @]
    /\ log' = IF Thrown(dump.pkt) THEN log \cup {"e.what()"} ELSE log
    /\ ctx' = IF dump.pkt.kind \in StreamKinds
              THEN [ctx EXCEPT !.stream_pkts = @ + 1]
              ELSE ctx
    /\ UNCHANGED <<lim, mode, pc, src, text, stack, out, jso, ret, left, events>>

raw_decode ==
    /\ pc = "decode" /\ mode = "text" /\ dump.stage = "dispatch"
    /\ Decoded(CASE dump.pkt.kind = "signature" ->
                      stream_dump_signature(dump.dump_packets, dump.pkt, dump.level)
                 [] dump.pkt.kind = "key" -> stream_dump_key(dump.pkt, dump.dump_grips)
                 [] OTHER -> stream_dump_other(dump.pkt))

json_decode ==
    /\ pc = "decode" /\ mode = "json" /\ dump.stage = "dispatch"
    /\ Decoded(CASE dump.pkt.kind = "signature" ->
                      stream_dump_signature_json(dump.dump_packets, dump.pkt)
                 [] dump.pkt.kind = "key" ->
                      stream_dump_key_json(dump.pkt, dump.dump_grips)
                 [] OTHER -> stream_dump_other_json(dump.pkt))

\* the walker goes on with the next packet, or returns the decoder's result
decode_failure ==
    /\ pc = "decode" /\ dump.stage = "account"
    /\ IF dump.ret # RNP_SUCCESS
       THEN /\ ctx' = [ctx EXCEPT !.failures = @ + 1]
            /\ IF TooManyErrors(ctx.failures + 1)
               THEN /\ log' = log \cup {"failed to process packet",
                                        "too many packet dump errors."}
                    /\ ret' = dump.ret
                    /\ dump' = [dump EXCEPT !.stage = "returned"]
               ELSE /\ log' = log \cup {"failed to process packet"}
                    /\ dump' = [dump EXCEPT !.stage = "next"]
                    /\ ret' = ret
       ELSE /\ dump' = [dump EXCEPT !.stage = "next"]
            /\ UNCHANGED <<ctx, log, ret>>
    /\ UNCHANGED <<lim, mode, pc, src, text, stack, out, jso, left, events>>

DecoderNext == raw_decode \/ json_decode \/ decode_failure

DecoderSpec == DecoderInit /\ [][DecoderNext]_vars

(***************************************************************************)
(* C11                                                                     *)
(***************************************************************************)
\* the bytes t hold the signature marker somewhere
MarkerAhead(t) ==
    \E i \in 1..Len(t) :
        i + siglen - 1 <= Len(t) /\ SubSeq(t, i, i + siglen - 1) = ST_SIG_BEGIN

\* this step ends the call in the framing: the cleartext skip or the armor
\* initialisation has failed
FramingFailure == pc \in {"skip", "armor"} /\ pc' = "done"

\* nothing was dispatched: no walker is or was active, no packet line has been
\* written and no packet array handed over
NothingDispatched ==
    /\ stack = <<>>
    /\ \A i \in 1..Len(out) : out[i].k # ":off"
    /\ ~jso.set /\ jso.pkts = <<>>
    /\ events = {}

\* C11: a walker is invoked only out of the end-of-input test that follows the
\* cleartext skip and the armor initialisation, with neither of them having
\* failed; a cleartext skip over bytes without the signature marker never gets
\* past the skip, and when it fails the call returns RNP_ERROR_BAD_FORMAT; a
\* failing armor initialisation makes the call return the error it gave; in
\* both cases the call ends with nothing dispatched and layers, stream_pkts and
\* failures all 0.
C11_framing_failure_dispatches_nothing ==
    [][/\ (stack = <<>> /\ stack' # <<>>) =>
              /\ pc = "eof" /\ ~src.cleartext /\ ~src.armored
              /\ log \cap {"malformed cleartext signed data",
                           "failed to parse armored data"} = {}
       /\ (pc = "skip" /\ ~MarkerAhead(text)) => pc' \in {"skip", "done"}
       /\ (pc = "skip" /\ pc' = "done") =>
              /\ ret' = RNP_ERROR_BAD_FORMAT
              /\ "malformed cleartext signed data" \in log'
       /\ (pc = "armor" /\ pc' = "done") =>
              /\ ret' \in init_armored_src_errors
              /\ "failed to parse armored data" \in log'
       /\ (pc = "armor" /\ pc' # "done") => (pc' = "eof" /\ log' = log)
       /\ FramingFailure =>
              /\ NothingDispatched'
              /\ ctx'.layers = 0 /\ ctx'.stream_pkts = 0 /\ ctx'.failures = 0
      ]_vars

\* a text dump has ended in the armor initialisation, behind a cleartext
\* signed text whose marker was found
C11_witness ==
    /\ Done /\ mode = "text" /\ "failed to parse armored data" \in log
    /\ out = <<Note(":cleartext signed data")>>
    /\ ret = RNP_ERROR_READ /\ ctx = FreshCtx

(***************************************************************************)
(* C12                                                                     *)
(***************************************************************************)
\* this step is the entry into a call
Entry == pc = "call" /\ pc' # "call"

\* the state an entry point is in after its first statements when it was
\* called on the framing f in mode m, as a function of these two alone
Entered(m, f) ==
    /\ ctx' = [layers |-> 0, stream_pkts |-> 0, failures |-> 0]
    /\ pc' = IF f THEN "skip" ELSE "armor"
    /\ out' = IF m = "text" /\ f THEN <<Note(":cleartext signed data")>> ELSE <<>>
    /\ stack' = <<>> /\ log' = {} /\ ~jso'.set /\ ret' = RNP_ERROR_GENERIC

AtDecoder == dump.stage = "dispatch"
AtAccount == dump.stage = "account"

\* the packet is a well-parsed key for which a value the decoder asks for
\* first cannot be computed: the key ID, or with dump_grips the fingerprint
\* (text: of a key later than version 3) or the grip
KeyValueFails ==
    /\ dump.stage # "none" /\ dump.pkt.kind = "key" /\ dump.pkt.parse = "ok"
    /\ \/ ~dump.pkt.keyid
       \/ /\ dump.dump_grips /\ ~dump.pkt.fingerprint
          /\ (mode = "text" => dump.pkt.version > PGP_V3)
       \/ dump.dump_grips /\ ~dump.pkt.grip

Has(ls, l) == \E i \in 1..Len(ls) : ls[i] = l

\* some value is written as failed to calculate
FailedToCalculate(ls) ==
    \E l \in {"keyid", "fingerprint", "grip"} : Has(ls, l \o ": failed to calculate")

\* C13: when the key ID, the fingerprint or the grip of a key packet cannot
\* be computed, the key decoder, text or JSON, still returns RNP_SUCCESS with
\* the value written as failed to calculate, and the walker leaves
\* ctx->failures as it is.
C13_key_value_failure_is_reported_in_band ==
    [][KeyValueFails =>
          /\ AtDecoder => /\ dump'.ret = RNP_SUCCESS
                          /\ FailedToCalculate(dump'.lines)
          /\ AtAccount => ctx'.failures = ctx.failures
      ]_vars

(***************************************************************************)
(* C14                                                                     *)
(***************************************************************************)
\* the packet is a well-parsed signature of a public-key algorithm the
\* switches do not know
UnknownAlgSignature ==
    /\ dump.stage # "none" /\ dump.pkt.kind = "signature"
    /\ dump.pkt.parse = "ok" /\ dump.pkt.palg = "other"

Last(ls) == ls[Len(ls)]

\* the header fields and the subpackets are written, in either output
SignatureHeadDumped(ls) ==
    /\ Has(ls, "version") /\ Has(ls, "type") /\ Has(ls, "hash algorithm")
    /\ Has(ls, "lbits")
    /\ dump.pkt.version >= PGP_V4 =>
           \/ Has(ls, "hashed subpackets:") /\ Has(ls, "unhashed subpackets:")
           \/ Has(ls, "subpackets")

UnprotectedSecretKeyDumped ==
    /\ dump.stage \notin {"none", "dispatch"}
    /\ dump.pkt.kind = "key" /\ dump.pkt.parse = "ok"
    /\ dump.pkt.secret /\ dump.pkt.usage = "PGP_S2KU_NONE"

HasAny(ls, S) == \E i \in 1..Len(ls) : ls[i] \in S

S2kFields ==
    {"s2k specifier", "GPG extension num", "Unknown experimental s2k",
     "s2k hash algorithm", "s2k salt", "s2k iterations",
     "material.s2k", "material.s2k.specifier", "material.s2k.gpg extension",
     "material.s2k.unknown experimental", "material.s2k.hash algorithm",
     "material.s2k.salt", "material.s2k.iterations"}
SymmetricAlgorithmFields == {"symmetric algorithm", "material.symmetric algorithm"}
CipherIvFields == {"cipher iv", "cipher iv: unknown algorithm"}
\* the length of the secret key data, of any key version
SecretLengthFields == {"cleartext secret key data", "encrypted secret key data"}

ActiveWalkers == Cardinality({i \in 1..Len(stack) : stack[i].pc # "enter"})

\* C17: at every point of a dump ctx->layers is the number of walker
\* invocations active at that point: it is raised on entry and restored on
\* return.
C17_layers_is_the_depth == pc = "walk" => ctx.layers = ActiveWalkers

(***************************************************************************)
(* C18                                                                     *)
(***************************************************************************)
\* C18: the walker invocations that are in their packet loop at the same time
\* are never more than MAXIMUM_NESTING_LEVEL.
C18_depth_is_bounded == ActiveWalkers <= MAXIMUM_NESTING_LEVEL

\* MAXIMUM_NESTING_LEVEL walkers are in their loops, the largest the model has,
\* and a walker entered below them has been turned back
C18_witness ==
    /\ pc = "walk" /\ ActiveWalkers = MAXIMUM_NESTING_LEVEL
    /\ MAXIMUM_NESTING_LEVEL = MaxLimit
    /\ "entered too deep" \in events

(***************************************************************************)
(* C19                                                                     *)
(***************************************************************************)
\* the packet about to be dispatched has the tag of a case that skips it, and
\* stream_skip_packet will succeed on it
SkipsTrustOrMdc == AtDispatch /\ Top.hd.tag \in SkippedTags /\ Top.hd.dec = "ok"
SkipsUnknown ==
    /\ AtDispatch /\ Top.hd.dec = "ok"
    /\ Top.hd.tag \notin PlainTags \cup EncryptedTags \cup CompressedTags
                         \cup LiteralTags \cup SkippedTags
\* the walker accounts for a packet that was skipped with success
SkipAccounted ==
    /\ InWalker /\ Top.pc = "account" /\ Top.dret = RNP_SUCCESS
    /\ Top.hd.st = "none"

\* C19: a Trust, MDC or unknown packet is skipped, and when the skip succeeds
\* ctx->failures stays as it is.
C19_skip_does_not_count ==
    [][(SkipsTrustOrMdc \/ SkipsUnknown) =>
           /\ ctx'.failures = ctx.failures
           /\ GoesTo("account")]_vars

\* C19 (amended): a Trust, MDC or unknown packet is skipped and counts in
\* neither ctx->stream_pkts nor ctx->layers.  The successful skip of a Trust or
\* MDC packet leaves ctx->failures as it is.  The successful skip of an
\* unknown packet raises ctx->failures by one: when it then exceeds
\* MAXIMUM_ERROR_PKTS the walker returns, the text walker the skip's
\* RNP_SUCCESS and the JSON walker RNP_ERROR_BAD_FORMAT; otherwise it goes on,
\* and the failure accounting adds nothing for the skipped packet.
C19_unknown_skip_counts ==
    [][/\ (SkipsTrustOrMdc \/ SkipsUnknown) =>
              /\ ctx'.stream_pkts = ctx.stream_pkts /\ ctx'.layers = ctx.layers
       /\ SkipsTrustOrMdc => (ctx'.failures = ctx.failures /\ GoesTo("account"))
       /\ SkipsUnknown =>
              /\ ctx'.failures = ctx.failures + 1
              /\ IF ctx'.failures > MAXIMUM_ERROR_PKTS
                 THEN Returns(IF mode = "text" THEN RNP_SUCCESS
                              ELSE RNP_ERROR_BAD_FORMAT)
                 ELSE GoesTo("account")
       /\ SkipAccounted => (ctx' = ctx /\ GoesTo("check"))
      ]_vars

\* a walker is behind an unknown packet and a Trust packet, both skipped: one
\* failure is counted
C19_witness ==
    /\ InWalker /\ Top.pc = "check" /\ Top.off = 2 /\ Top.dret = RNP_SUCCESS
    /\ ctx.failures = 1 /\ ctx.stream_pkts = 0 /\ log = {}

(***************************************************************************)
(* C20                                                                     *)
(***************************************************************************)
\* this step enters a compressed layer / returns from one
LayerEntered == InWalker /\ Len(stack') > Len(stack)
LayerLeft == InWalker /\ stack' # <<>> /\ Len(stack') < Len(stack)

\* C20: from the entry of a call on, no step lowers ctx->stream_pkts or
\* ctx->failures; the step into a compressed layer changes them by the count
\* of the compressed packet alone, and the return from a layer by at most the
\* failure count of the packet the nested walker ends on.
C20_counters_never_decrease ==
    [][/\ pc # "call" => /\ ctx'.stream_pkts >= ctx.stream_pkts
                         /\ ctx'.failures >= ctx.failures
       /\ LayerEntered => /\ ctx'.failures = ctx.failures
                          /\ ctx'.stream_pkts = ctx.stream_pkts + 1
       /\ LayerLeft => /\ ctx'.stream_pkts = ctx.stream_pkts
                       /\ ctx'.failures \in {ctx.failures, ctx.failures + 1}
      ]_vars

\* a walker of a compressed layer is about to dispatch a packet, with a
\* stream packet and a failure counted before the layer was entered
C20_witness ==
    /\ InWalker /\ Len(stack) = 2 /\ Top.pc = "dispatch" /\ Top.off = 0
    /\ ctx.failures = 1 /\ ctx.stream_pkts = 2

(***************************************************************************)
(* C21                                                                     *)
(***************************************************************************)
\* the tags of the packets that make a stream
StreamPacketTags ==
    {"PGP_PKT_LITDATA", "PGP_PKT_COMPRESSED", "PGP_PKT_SE_DATA",
     "PGP_PKT_SE_IP_DATA", "PGP_PKT_AEAD_ENCRYPTED"}

\* C21: the dispatch of a packet raises ctx->stream_pkts by exactly one when
\* the packet is literal data, compressed data or encrypted data of any of the
\* three kinds, whatever its decoder then does, and leaves it as it is for a
\* packet of any other tag.
C21_stream_packets_are_counted_once ==
    [][Dispatches =>
          ctx'.stream_pkts = IF Top.hd.tag \in StreamPacketTags
                             THEN ctx.stream_pkts + 1
                             ELSE ctx.stream_pkts]_vars

\* the outermost walker has dispatched two packets, one of them a stream
\* packet whose decoder failed
C21_witness ==
    /\ InWalker /\ Len(stack) = 1 /\ Top.pc = "check" /\ Top.off = 2
    /\ ctx.stream_pkts = 1 /\ ctx.failures = 1 /\ ctx.layers = 1

(***************************************************************************)
(* C22, C23                                                                *)
(***************************************************************************)
\* the positions of the stream t where ST_SIG_BEGIN stands
MarkerAt(t) ==
    {i \in 1..Len(t) : i + siglen - 1 <= Len(t)
                       /\ SubSeq(t, i, i + siglen - 1) = ST_SIG_BEGIN}
\* stream_skip_cleartext returns true / returns false on this step
SkipFound == pc = "skip" /\ pc' = "armor"
SkipFailed == pc = "skip" /\ pc' = "done"

\* C22 as stated: when the marker is found the stream is left just past the
\* whole marker string.
C22_stream_is_left_past_the_marker ==
    [][SkipFound => \E i \in MarkerAt(text) : text' = Drop(text, i + siglen - 1)]_vars

\* C22: when the marker is found the stream is left just past the marker's
\* leading line feed: the next bytes read are the rest of the marker, from
\* its second byte on.
C22_stream_is_left_past_the_line_feed ==
    [][SkipFound =>
          /\ \E i \in MarkerAt(text) : text' = Drop(text, i)
          /\ Len(text') >= siglen - 1
          /\ SubSeq(text', 1, siglen - 1) = SubSeq(ST_SIG_BEGIN, 2, siglen)]_vars

\* the marker was found and the source stands on the marker's second byte,
\* with a byte after the marker
C22_witness ==
    /\ pc = "armor" /\ src.cleartext
    /\ text = <<"B", "x">>

\* C23 as stated: stream_skip_cleartext returns true exactly when the marker
\* stands somewhere in the stream ahead.  The failing returns looked at are
\* those the function makes on what it peeked, not those of a failed peek.
C23_marker_is_found_wherever_it_is ==
    [][/\ SkipFound => MarkerAt(text) # {}
       /\ SkipFailed /\ SkipOutcome(text) = "false" => MarkerAt(text) = {}]_vars

(***************************************************************************)
(* C24                                                                     *)
(***************************************************************************)
\* the decoder is about to dump a well-parsed key packet
KeyAtDecoder == AtDecoder /\ dump.pkt.kind = "key" /\ dump.pkt.parse = "ok"
\* the value was asked for: it is in the output, or its failure is
Asked(ls, l) == Has(ls, l) \/ Has(ls, l \o ": failed to calculate")

\* C24: of a key packet the key ID is always computed, the grip only when
\* dump_grips is set, and the fingerprint only when dump_grips is set and the
\* key is later than version 3, in the text and in the JSON dump.  A value
\* that is in the output was computed.
C24_fingerprint_only_past_version_3 ==
    [][KeyAtDecoder =>
          /\ dump.pkt.keyid => Has(dump'.lines, "keyid")
          /\ Asked(dump'.lines, "grip") => dump.dump_grips
          /\ Asked(dump'.lines, "fingerprint") =>
                 dump.dump_grips /\ dump.pkt.version > PGP_V3
      ]_vars

(***************************************************************************)
(* The raw bytes of a packet.  With ctx->dump_packets both walkers, before  *)
(* they dispatch a packet, peek its header and the first bytes of its body  *)
(* and write the body bytes out.  The packet is one of definite length     *)
(* pkt_len, behind a header of hdr_len bytes; the source holds the header,  *)
(* `body` bytes of the packet's body and `next` bytes of the packets after  *)
(* it.  Lengths are size_t values, 0..SizeMax.                              *)
(***************************************************************************)
SizeMod == SizeMax + 1
HeaderLens == {2, 3}

\* the 1024 of the text walker, the 2048 of the JSON walker
RawPreview(m) == IF m = "text" THEN RawPreviewText ELSE RawPreviewJson

\* rlen as handed to src->peek
PeekLen(pkt_len, hdr_len, preview) ==
    LET rlen == (pkt_len + hdr_len) % SizeMod
    IN  IF pkt_len = 0 \/ rlen > preview + hdr_len THEN preview + hdr_len ELSE rlen

\* the bytes src->peek delivers when it is asked for n
PeekRead(d, n) == Min(n, d.hdr_len + d.body + d.next)

PreviewPkts ==
    {d \in [stage : {"header"}, pkt_len : 0..SizeMax, hdr_len : HeaderLens,
            body : 0..SizeMax, next : 0..MaxFollowing, dump_packets : BOOLEAN,
            result : {"none"}, raw : {0}] :
        /\ d.body <= d.pkt_len
        /\ d.next > 0 => d.body = d.pkt_len}

PreviewInit ==
    /\ lim = [nest |-> 1, stream |-> 1]
    /\ mode \in {"text", "json"}
    /\ pc = "contents"
    /\ src = [cleartext |-> FALSE, armored |-> FALSE, wfk |-> 0, hd |-> NoHd]
    /\ text = <<>>
    /\ ctx = [layers |-> 1, stream_pkts |-> 0, failures |-> 0]
    /\ stack = <<>>
    /\ out = <<>>
    /\ jso = [set |-> FALSE, pkts |-> <<>>]
    /\ ret = RNP_ERROR_GENERIC
    /\ left = 0
    /\ log = {}
    /\ events = {}
    /\ dump \in PreviewPkts

\* the walker goes on to the switch with `raw` body bytes written, or without
\* any, or returns
Previewed(res, n) ==
    /\ dump' = [dump EXCEPT !.stage = "dumped", !.result = res, !.raw = n]
    /\ UNCHANGED <<lim, mode, pc, src, text, ctx, stack, out, jso, left, log, events>>

\* the text walker: `rlen -= hdr.hdr_len` is not guarded, and a length below
\* zero makes dst_hexdump read past msg
raw_contents ==
    /\ pc = "contents" /\ mode = "text" /\ dump.stage = "header"
    /\ IF ~dump.dump_packets
       THEN Previewed("off", 0) /\ ret' = ret
       ELSE \E peeked \in BOOLEAN :
              LET read == PeekRead(dump, PeekLen(dump.pkt_len, dump.hdr_len,
                                                 RawPreview("text")))
              IN  /\ ret' = ret
                  /\ IF ~peeked THEN Previewed("- failed to read", 0)
                     ELSE IF read < dump.hdr_len
                     THEN \E n \in 0..SizeMax : Previewed("bytes", n)
                     ELSE Previewed("bytes", read - dump.hdr_len)

\* the JSON walker
json_contents ==
    /\ pc = "contents" /\ mode = "json" /\ dump.stage = "header"
    /\ IF ~dump.dump_packets
       THEN Previewed("off", 0) /\ ret' = ret
       ELSE \E peeked \in BOOLEAN :
              LET read == PeekRead(dump, PeekLen(dump.pkt_len, dump.hdr_len,
                                                 RawPreview("json")))
              IN  IF ~peeked \/ read < dump.hdr_len
                  THEN Previewed("returned", 0) /\ ret' = RNP_ERROR_READ
                  ELSE Previewed("bytes", read - dump.hdr_len) /\ ret' = ret

PreviewNext == raw_contents \/ json_contents

PreviewSpec == PreviewInit /\ [][PreviewNext]_vars

(***************************************************************************)
(* C25                                                                     *)
(***************************************************************************)
\* raw bytes were written for a packet whose body is all in the source
RawWritten ==
    /\ dump.stage = "dumped" /\ dump.result = "bytes"
    /\ dump.body = dump.pkt_len

\* C25: with ctx->dump_packets the raw bytes written for a packet of definite
\* length L are exactly the first min(L, preview size) bytes of its body, the
\* preview size being that of the walker, and hold no byte of a packet after
\* it, for every L: also for L = 0 and for an L that wraps with the header
\* length added.
C25_raw_bytes_are_the_body_preview ==
    RawWritten => dump.raw = Min(dump.pkt_len, RawPreview(mode))

(***************************************************************************)
(* C26                                                                     *)
(***************************************************************************)
\* what the decoder the walker of entry point m dispatches to makes of packet
\* p: the switch of raw_decode for "text", that of json_decode for "json"
DispatchedDecoder(m, p, dump_grips) ==
    IF m = "text"
    THEN CASE p.kind = "signature" ->
                  stream_dump_signature(dump.dump_packets, p, dump.level)
           [] p.kind = "key" -> stream_dump_key(p, dump_grips)
           [] OTHER -> stream_dump_other(p)
    ELSE CASE p.kind = "signature" -> stream_dump_signature_json(dump.dump_packets, p)
           [] p.kind = "key" -> stream_dump_key_json(p, dump_grips)
           [] OTHER -> stream_dump_other_json(p)

\* the other entry point
Twin(m) == IF m = "text" THEN "json" ELSE "text"
\* the result the other entry point's decoder has for the packet at hand
TwinRet == DispatchedDecoder(Twin(mode), dump.pkt, dump.dump_grips).ret

\* C26: on the same input and flags the text and the JSON entry point agree
\* on success or failure and leave the same ctx->failures and
\* ctx->stream_pkts.  Here the input is one packet: the decoder that runs
\* succeeds exactly when the other entry point's decoder does on the same
\* packet, and the walker's failure accounting comes out the same.
C26_text_and_json_agree ==
    [][/\ AtDecoder =>
            /\ (dump'.ret = RNP_SUCCESS) <=> (TwinRet = RNP_SUCCESS)
            /\ ctx'.stream_pkts = ctx.stream_pkts
                   + (IF dump.pkt.kind \in StreamKinds THEN 1 ELSE 0)
       /\ AtAccount =>
            ctx'.failures = ctx.failures + (IF TwinRet = RNP_SUCCESS THEN 0 ELSE 1)
      ]_vars

(***************************************************************************)
(* Signatures with subpackets.  One signature packet goes through its       *)
(* decoder as in DecoderSpec, now with up to MaxSubpkts subpackets, hashed  *)
(* or not: of a type with a case of its own, of a type the switch does not  *)
(* know, or an embedded signature, which has subpackets in turn.  The text  *)
(* decoder starts at the indentation level its walker has.                  *)
(***************************************************************************)
SubpktTypes ==
    {"PGP_SIG_SUBPKT_CREATION_TIME", "PGP_SIG_SUBPKT_EMBEDDED_SIGNATURE", "other"}
Subpkts == [type : SubpktTypes, hashed : BOOLEAN]

HasEmbedded(sp) ==
    \E i \in 1..Len(sp) : sp[i].type = "PGP_SIG_SUBPKT_EMBEDDED_SIGNATURE"

\* the signatures with at most n subpackets in all; a version 3 signature has
\* none, and the embedded signature subpackets of a signature hold the same
\* signature
RECURSIVE SignaturesOf(_)
SignaturesOf(n) ==
    LET lists == SeqsUpTo(Subpkts, n)
    IN  [version : {PGP_V3}, palg : {"PGP_PKA_RSA"}, material_throws : BOOLEAN,
         subpkts : {<<>>}, inner : {<<>>}]
        \cup
        [version : {PGP_V4}, palg : {"PGP_PKA_RSA"}, material_throws : BOOLEAN,
         subpkts : {sp \in lists : ~HasEmbedded(sp)}, inner : {<<>>}]
        \cup
        UNION {[version : {PGP_V4}, palg : {"PGP_PKA_RSA"},
                material_throws : BOOLEAN, subpkts : {sp},
                inner : {<<e>> : e \in SignaturesOf(n - Len(sp))}] :
               sp \in {l \in lists : HasEmbedded(l)}}

\* the signature as the packet the walker dispatches
AsPacket(sig, parse) ==
    [kind |-> "signature", parse |-> parse, version |-> sig.version,
     palg |-> sig.palg, material_throws |-> sig.material_throws,
     subpkts |-> sig.subpkts, inner |-> sig.inner]

SignatureInit ==
    /\ lim = [nest |-> 1, stream |-> 1]
    /\ mode \in {"text", "json"}
    /\ pc = "decode"
    /\ src = [cleartext |-> FALSE, armored |-> FALSE, wfk |-> 0, hd |-> NoHd]
    /\ text = <<>>
    /\ ctx \in [layers : {1}, stream_pkts : {0}, failures : 0..MAXIMUM_ERROR_PKTS]
    /\ stack = <<>>
    /\ out = <<>>
    /\ jso = [set |-> FALSE, pkts |-> <<>>]
    /\ ret = RNP_ERROR_GENERIC
    /\ left = 0
    /\ log = {}
    /\ events = {}
    /\ dump \in [stage : {"dispatch"},
                 pkt : {AsPacket(sig, parse) :
                            sig \in SignaturesOf(MaxSubpkts), parse \in ParseOutcomes},
                 dump_grips : {FALSE}, dump_packets : BOOLEAN, level : {0, 1},
                 ret : {RNP_ERROR_GENERIC}, lines : {<<>>}]

SignatureSpec == SignatureInit /\ [][DecoderNext]_vars

(***************************************************************************)
(* C27                                                                     *)
(***************************************************************************)
\* a signature packet has been through its decoder
SignatureDumped ==
    /\ dump.stage \notin {"none", "dispatch"} /\ dump.pkt.kind = "signature"

\* the first line of the record of a subpacket of a type not known
OtherTypeLines == {":type other", "subpackets.type other"}
\* the raw bytes of a subpacket
RawLines == {"hexdump", "subpackets.raw"}
\* what else the record of such a subpacket holds
RecordLines ==
    {":subpacket contents:", "subpackets.length", "subpackets.hashed",
     "subpackets.critical"}

\* the record that begins at line i ends before the first line that is not
\* of a record
RecordEnd(ls, i) ==
    CHOOSE j \in i..Len(ls) :
        /\ \A k \in (i + 1)..j : ls[k] \in RawLines \cup RecordLines
        /\ j < Len(ls) => ls[j + 1] \notin RawLines \cup RecordLines
RawCount(ls, i) ==
    Cardinality({k \in (i + 1)..RecordEnd(ls, i) : ls[k] \in RawLines})

\* the subpackets of an unknown type the dump of sig comes by
RECURSIVE OtherCount(_)
OtherCount(sig) ==
    LET own == {i \in 1..Len(sig.subpkts) : sig.subpkts[i].type = "other"}
        embedded == {i \in 1..Len(sig.subpkts) :
                        sig.subpkts[i].type = "PGP_SIG_SUBPKT_EMBEDDED_SIGNATURE"}
    IN  IF sig.version < PGP_V4 THEN 0
        ELSE Cardinality(own) +
             (IF embedded = {} THEN 0
              ELSE Cardinality(embedded) * OtherCount(EmbeddedSig(sig)))

\* C27: a subpacket of a type the switch does not know, in a signature of
\* version 4 or later, has its raw bytes written exactly once in its record,
\* with ctx->dump_packets and without, in the text and in the JSON dump; and
\* every such subpacket of a signature that parsed has its record, in the text
\* dump always and in the JSON dump when the decoder succeeds.
C27_unknown_subpacket_raw_bytes_once ==
    SignatureDumped =>
        /\ \A i \in 1..Len(dump.lines) :
               dump.lines[i] \in OtherTypeLines => RawCount(dump.lines, i) = 1
        /\ (dump.pkt.parse = "ok" /\ (mode = "text" \/ dump.ret = RNP_SUCCESS)) =>
               Cardinality({i \in 1..Len(dump.lines) : dump.lines[i] \in OtherTypeLines})
                   = OtherCount(dump.pkt)

\* the text walker goes on behind a signature dumped with ctx->dump_packets
\* whose embedded signature has a subpacket of an unknown type
C27_witness ==
    /\ SignatureDumped /\ dump.stage = "next" /\ mode = "text"
    /\ dump.dump_packets /\ dump.pkt.inner # <<>>
    /\ OtherCount(dump.pkt) = 1 /\ OtherCount(EmbeddedSig(dump.pkt)) = 1
    /\ Has(dump.lines, ":type other")

(***************************************************************************)
(* C28                                                                     *)
(***************************************************************************)
\* C28: the dump of a signature packet, the signatures embedded in its
\* subpackets included at any depth, leaves ctx->layers, ctx->stream_pkts and
\* ctx->failures as they are; the walker then raises ctx->failures by one when
\* the signature decoder has returned an error, and changes nothing else.
C28_signature_dump_keeps_the_counters ==
    [][(dump.stage # "none" /\ dump.pkt.kind = "signature") =>
          /\ AtDecoder => ctx' = ctx
          /\ AtAccount =>
                /\ ctx'.layers = ctx.layers
                /\ ctx'.stream_pkts = ctx.stream_pkts
                /\ ctx'.failures = ctx.failures
                                     + (IF dump.ret # RNP_SUCCESS THEN 1 ELSE 0)
      ]_vars

\* the JSON walker goes on behind a signature that failed on the material of
\* a signature embedded in its embedded signature: one failure is counted
C28_witness ==
    /\ SignatureDumped /\ dump.stage = "next" /\ mode = "json"
    /\ dump.pkt.inner # <<>> /\ EmbeddedSig(dump.pkt).inner # <<>>
    /\ EmbeddedSig(EmbeddedSig(dump.pkt)).material_throws
    /\ dump.ret = RNP_ERROR_OUT_OF_MEMORY
    /\ ctx = [layers |-> 1, stream_pkts |-> 0, failures |-> 1]

(***************************************************************************)
(* C29                                                                     *)
(***************************************************************************)
\* C29: in the text dump the indentation level after a packet's decoder has
\* returned is the level it was called at, on every path through the decoder:
\* success, parse failure, and the exception parse_material throws inside
\* stream_dump_signature_pkt.
C29_decoder_restores_the_indentation ==
    [][(AtDecoder /\ mode = "text") => dump'.level = dump.level]_vars

(***************************************************************************)
(* Sources and destinations.  What a dump opens and closes: the armored     *)
(* source and the indent destination of the entry points, the compressed    *)
(* source of stream_dump_compressed(_json) and the literal source of        *)
(* stream_dump_literal(_json).  The walkers are followed as far as they     *)
(* open and close: a walker dispatches a packet, up to MaxInput in all, or  *)
(* returns, for whatever reason it has.  dump keeps the locals `armored`    *)
(* and `indent`, the compressed sources of the walkers that are active,     *)
(* the objects whose init succeeded, those whose init failed, and the       *)
(* close() calls in their order.                                            *)
(***************************************************************************)
Object(k, n) == [kind |-> k, n |-> n]
armorsrc == Object("armorsrc", 0)
wrdst == Object("wrdst", 0)
\* the source the top-level walker reads
TopSrc == Object("src", 0)
\* the n-th object a decoder sets up
Fresh(k) == Object(k, Cardinality(dump.opened \cup dump.failed) + 1)

Opened(d, o) == [d EXCEPT !.opened = @ \cup {o}]
InitFailed(d, o) == [d EXCEPT !.failed = @ \cup {o}]
Closed(d, os) == [d EXCEPT !.closed = @ \o os]

\* both are closed whether they were set up or not
FinishCloses_all(d) == <<armorsrc, wrdst>>
\* the closes behind the label finish
FinishCloses(d) ==
    (IF d.armored THEN <<armorsrc>> ELSE <<>>) \o
    (IF d.indent THEN <<wrdst>> ELSE <<>>)

SourcesInit ==
    /\ lim = [nest |-> 1, stream |-> 1]
    /\ mode \in {"text", "json"}
    /\ pc = "call"
    /\ src \in [cleartext : BOOLEAN, armored : BOOLEAN, wfk : {0}, hd : {NoHd}]
    /\ text = <<>>
    /\ ctx = FreshCtx
    /\ stack = <<>>
    /\ out = <<>>
    /\ jso = [set |-> FALSE, pkts |-> <<>>]
    /\ ret = RNP_ERROR_GENERIC
    /\ left = MaxInput
    /\ log = {}
    /\ events = {}
    /\ dump = [stage |-> "sources", armored |-> FALSE, indent |-> FALSE,
               walkers |-> <<>>, opened |-> {}, failed |-> {}, closed |-> <<>>]

\* stream_skip_cleartext fails and the entry point returns, or the entry
\* point goes on
entry_skip_cleartext ==
    /\ pc = "call"
    /\ \E found \in (IF src.cleartext THEN BOOLEAN ELSE {TRUE}) :
         IF found THEN pc' = "armor" /\ ret' = ret
         ELSE pc' = "done" /\ ret' = RNP_ERROR_BAD_FORMAT
    /\ UNCHANGED <<dump, lim, mode, src, text, ctx, stack, out, jso, left, log, events>>

entry_init_armored_src ==
    /\ pc = "armor"
    /\ IF src.armored
       THEN \E ok \in BOOLEAN :
              IF ok
              THEN /\ dump' = [Opened(dump, armorsrc) EXCEPT !.armored = TRUE]
                   /\ pc' = "eof"
                   /\ ret' = ret
              ELSE /\ dump' = InitFailed(dump, armorsrc)
                   /\ pc' = "done"
                   /\ ret' \in init_armored_src_errors
       ELSE /\ pc' = "eof"
            /\ UNCHANGED <<dump, ret>>
    /\ UNCHANGED <<lim, mode, src, text, ctx, stack, out, jso, left, log, events>>

\* src->eof() of the entry point; the JSON entry point calls its walker
\* where the text entry point first sets up the indent destination
entry_eof ==
    /\ pc = "eof"
    /\ \E eof \in BOOLEAN :
         IF eof
         THEN /\ pc' = "finish"
              /\ ret' = IF mode = "text" THEN RNP_SUCCESS ELSE RNP_ERROR_NOT_ENOUGH_DATA
              /\ dump' = dump
         ELSE IF mode = "text"
         THEN /\ pc' = "indent"
              /\ UNCHANGED <<dump, ret>>
         ELSE /\ pc' = "walk"
              /\ dump' = [dump EXCEPT !.walkers = <<TopSrc>>]
              /\ ret' = ret
    /\ UNCHANGED <<lim, mode, src, text, ctx, stack, out, jso, left, log, events>>

entry_init_indent_dest ==
    /\ pc = "indent"
    /\ \E ok \in BOOLEAN :
         IF ok
         THEN /\ dump' = [Opened(dump, wrdst) EXCEPT !.indent = TRUE,
                                                    !.walkers = <<TopSrc>>]
              /\ pc' = "walk"
              /\ ret' = ret
         ELSE /\ dump' = InitFailed(dump, wrdst)
              /\ pc' = "finish"
              /\ ret' = RNP_ERROR_OUT_OF_MEMORY
    /\ UNCHANGED <<lim, mode, src, text, ctx, stack, out, jso, left, log, events>>

\* stream_dump_literal(_json): init_literal_src fails and the decoder
\* returns, or the source is read to its end or to a read failure and closed
walker_literal ==
    /\ pc = "walk" /\ left > 0
    /\ left' = left - 1
    /\ \E ok \in BOOLEAN :
         dump' = IF ok THEN Closed(Opened(dump, Fresh("lsrc")), <<Fresh("lsrc")>>)
                 ELSE InitFailed(dump, Fresh("lsrc"))
    /\ UNCHANGED <<lim, mode, pc, src, text, ctx, stack, out, jso, ret, log, events>>

\* stream_dump_compressed(_json): init_compressed_src fails and the decoder
\* returns, or a walker is called on the compressed source
walker_compressed ==
    /\ pc = "walk" /\ left > 0
    /\ left' = left - 1
    /\ \E ok \in BOOLEAN :
         dump' = IF ok THEN [Opened(dump, Fresh("zsrc")) EXCEPT
                                 !.walkers = Append(@, Fresh("zsrc"))]
                 ELSE InitFailed(dump, Fresh("zsrc"))
    /\ UNCHANGED <<lim, mode, pc, src, text, ctx, stack, out, jso, ret, log, events>>

\* a packet whose decoder opens nothing
walker_other ==
    /\ pc = "walk" /\ left > 0
    /\ left' = left - 1
    /\ UNCHANGED <<dump, lim, mode, pc, src, text, ctx, stack, out, jso, ret, log, events>>

\* a walker returns: to stream_dump_compressed(_json), which closes zsrc, or
\* to the entry point
walker_return ==
    /\ pc = "walk"
    /\ \E r \in {RNP_SUCCESS, RNP_ERROR_BAD_FORMAT} :
         LET n == Len(dump.walkers)
         IN  IF n > 1
             THEN /\ dump' = [Closed(dump, <<dump.walkers[n]>>) EXCEPT
                                  !.walkers = SubSeq(@, 1, n - 1)]
                  /\ UNCHANGED <<pc, ret>>
             ELSE /\ dump' = [dump EXCEPT !.walkers = <<>>]
                  /\ pc' = "finish"
                  /\ ret' = r
    /\ UNCHANGED <<lim, mode, src, text, ctx, stack, out, jso, left, log, events>>

entry_finish ==
    /\ pc = "finish"
    /\ dump' = Closed(dump, FinishCloses(dump))
    /\ pc' = "done"
    /\ UNCHANGED <<lim, mode, src, text, ctx, stack, out, jso, ret, left, log, events>>

SourcesNext ==
    \/ entry_skip_cleartext \/ entry_init_armored_src \/ entry_eof
    \/ entry_init_indent_dest \/ walker_literal \/ walker_compressed
    \/ walker_other \/ walker_return \/ entry_finish

SourcesSpec == SourcesInit /\ [][SourcesNext]_vars

(***************************************************************************)
(* C30                                                                     *)
(***************************************************************************)
Closes(o) == Cardinality({i \in 1..Len(dump.closed) : dump.closed[i] = o})
\* the objects whose opening function has not returned
InUse ==
    (IF dump.armored /\ pc # "done" THEN {armorsrc} ELSE {}) \cup
    (IF dump.indent /\ pc # "done" THEN {wrdst} ELSE {}) \cup
    {dump.walkers[i] : i \in 2..Len(dump.walkers)}

\* C30: every source and destination a dump has set up with success, the
\* armored source, a compressed source, a literal source, the indent
\* destination, is closed exactly once before the function that set it up
\* returns, on every path; and nothing whose init failed is ever closed.
C30_what_is_opened_is_closed_once ==
    /\ \A o \in dump.opened : Closes(o) = IF o \in InUse THEN 0 ELSE 1
    /\ \A i \in 1..Len(dump.closed) : dump.closed[i] \in dump.opened
    /\ pc = "done" => InUse = {}

\* a text dump of armored input has returned: it has closed the armored
\* source, the indent destination, a compressed source and a literal source
\* read inside it, and a compressed source could not be set up
C30_witness ==
    /\ pc = "done" /\ mode = "text"
    /\ {o.kind : o \in dump.opened} = {"armorsrc", "wrdst", "zsrc", "lsrc"}
    /\ dump.failed # {}
    /\ Len(dump.closed) = 4

====
